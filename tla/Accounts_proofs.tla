---------------------------- MODULE Accounts_proofs ----------------------------
(* What an account promises its tabs, for any number of tabs, pairs of      *)
(* tokens, codes, forms and failures.                                       *)
EXTENDS Accounts, SequenceTheorems, TLAPS

Whats ==
  {"none", "poll", "me", "login", "register", "code", "reset", "logout", "patch", "delete"}

Request ==
  [what : Whats, pc : {"idle", "sent", "checked", "answered", "waiting"}, pair : Nat,
   typed : Nat, remember : BOOLEAN, again : BOOLEAN,
   answer : {"none", "ok", "error", "denied"}, seen : SUBSET Nat]

Renewal == [pc : {"idle", "sent", "checked", "answered"}, pair : Nat, answer : Nat]

Token == [live : BOOLEAN, family : Nat, under : Nat]

Code == {"valid", "used"}

(* The shape of every variable.                                             *)
Shape ==
  /\ active \in BOOLEAN /\ password \in Nat
  /\ tokens \in Seq(Token) /\ codes \in Seq(Code)
  /\ local \in Nat /\ session \in [Tabs -> Nat]
  /\ screen \in [Tabs -> {"auth", "app"}]
  /\ ask \in [Tabs -> [Slots -> Request]]
  /\ renew \in [Tabs -> Renewal]
  /\ commands \in Seq(Whats) /\ failures \in Nat

(* A session is numbered by its first token.                                *)
Families == \A n \in 1..Len(tokens) : 1 <= tokens[n].family /\ tokens[n].family <= n

(* Who names a pair of tokens names one that was issued.                    *)
PairsExist ==
  /\ local <= Len(tokens)
  /\ \A t \in Tabs :
       /\ session[t] <= Len(tokens)
       /\ \A s \in Slots : ask[t][s].pair <= Len(tokens)
       /\ renew[t].pair <= Len(tokens) /\ renew[t].answer <= Len(tokens)

(* What a request holds fits where it is.                                   *)
Coherent(a) ==
  /\ IF a.pc = "idle" THEN a = NoAsk ELSE a.what # "none"
  /\ a.pc \in {"sent", "checked"} => a.answer = "none"
  /\ a.pc = "checked" => a.what \notin {"poll", "me"}
  /\ a.pc = "answered" => a.answer # "none"
  /\ a.pc = "waiting" => a.answer = "denied"
  /\ a.answer = "denied" => a.what \in Authorised

Coherence ==
  \A t \in Tabs :
    /\ \A s \in Slots : Coherent(ask[t][s])
    /\ ask[t]["background"].what \in {"none", "poll"}
    /\ renew[t].pc = "idle" => renew[t] = NoRenewal
    /\ renew[t].pc # "idle" => renew[t].pair # None
    /\ renew[t].pc # "answered" => renew[t].answer = None

Sound == Shape /\ Families /\ PairsExist /\ Coherence

-----------------------------------------------------------------------------
(* Updates                                                                  *)

(* Only one request changes.                                                *)
Only(t, s) ==
  \A u \in Tabs, r \in Slots : u # t \/ r # s => ask'[u][r] = ask[u][r]

LEMMA OneAsk ==
  ASSUME Shape, NEW t \in Tabs, NEW s \in Slots, NEW a \in Request,
         ask' = [ask EXCEPT ![t][s] = a]
  PROVE  ask' \in [Tabs -> [Slots -> Request]] /\ ask'[t][s] = a /\ Only(t, s)
<1>1. ask \in [Tabs -> [Slots -> Request]]
  BY DEF Shape
<1>2. ask[t] \in [Slots -> Request]
  BY <1>1
<1>3. [ask[t] EXCEPT ![s] = a] \in [Slots -> Request]
  BY <1>2
<1>4. ask' = [ask EXCEPT ![t] = [ask[t] EXCEPT ![s] = a]]
  OBVIOUS
<1>5. ask' \in [Tabs -> [Slots -> Request]]
  BY <1>1, <1>3, <1>4
<1>6. ask'[t] = [ask[t] EXCEPT ![s] = a] /\ \A u \in Tabs : u # t => ask'[u] = ask[u]
  BY <1>1, <1>4
<1>7. ask'[t][s] = a /\ \A r \in Slots : r # s => ask'[t][r] = ask[t][r]
  BY <1>2, <1>6
<1>. QED BY <1>5, <1>6, <1>7 DEF Only

(* A request that is answered.                                              *)
Same(a, b) ==
  /\ a.what = b.what /\ a.typed = b.typed /\ a.remember = b.remember /\ a.again = b.again
  /\ a.seen = b.seen

LEMMA AnsweredAsk ==
  ASSUME Shape, NEW t \in Tabs, NEW s \in Slots, NEW w \in {"ok", "error", "denied"},
         Answered(t, s, w)
  PROVE  /\ ask' \in [Tabs -> [Slots -> Request]] /\ Only(t, s)
         /\ Same(ask'[t][s], ask[t][s]) /\ ask'[t][s].pair = ask[t][s].pair
         /\ ask'[t][s].pc = "answered" /\ ask'[t][s].answer = w
<1>1. ask[t][s] \in Request
  BY DEF Shape
<1>. DEFINE b == [ask[t][s] EXCEPT !.pc = "answered", !.answer = w]
<1>2. b \in Request
  BY <1>1 DEF Request
<1>3. Same(b, ask[t][s]) /\ b.pair = ask[t][s].pair /\ b.pc = "answered" /\ b.answer = w
  BY <1>1 DEF Request, Same
<1>4. ask' = [ask EXCEPT ![t][s] = b]
  BY DEF Answered
<1>. HIDE DEF b
<1>5. ask' \in [Tabs -> [Slots -> Request]] /\ ask'[t][s] = b /\ Only(t, s)
  BY <1>2, <1>4, OneAsk
<1>. QED BY <1>3, <1>5

(* A request whose conditions were looked at.                               *)
Looked(t, s, S) == ask' = [ask EXCEPT ![t][s] = [@ EXCEPT !.pc = "checked", !.seen = S]]

LEMMA CheckedAsk ==
  ASSUME Shape, NEW t \in Tabs, NEW s \in Slots, NEW S \in SUBSET Nat, Looked(t, s, S)
  PROVE  /\ ask' \in [Tabs -> [Slots -> Request]] /\ Only(t, s)
         /\ ask'[t][s].what = ask[t][s].what /\ ask'[t][s].typed = ask[t][s].typed
         /\ ask'[t][s].remember = ask[t][s].remember
         /\ ask'[t][s].pair = ask[t][s].pair /\ ask'[t][s].answer = ask[t][s].answer
         /\ ask'[t][s].pc = "checked" /\ ask'[t][s].seen = S
<1>1. ask[t][s] \in Request
  BY DEF Shape
<1>. DEFINE b == [ask[t][s] EXCEPT !.pc = "checked", !.seen = S]
<1>2. b \in Request
  BY <1>1 DEF Request
<1>3. /\ b.what = ask[t][s].what /\ b.typed = ask[t][s].typed /\ b.remember = ask[t][s].remember
      /\ b.pair = ask[t][s].pair /\ b.answer = ask[t][s].answer
      /\ b.pc = "checked" /\ b.seen = S
  BY <1>1 DEF Request
<1>4. ask' = [ask EXCEPT ![t][s] = b]
  BY DEF Looked
<1>. HIDE DEF b
<1>5. ask' \in [Tabs -> [Slots -> Request]] /\ ask'[t][s] = b /\ Only(t, s)
  BY <1>2, <1>4, OneAsk
<1>. QED BY <1>3, <1>5

(* A new request.                                                           *)
LEMMA FieldsType ==
  ASSUME NEW what \in Whats, NEW typed \in Nat, NEW remember \in BOOLEAN, NEW pair \in Nat
  PROVE  LET b == [Fields(what, typed, remember) EXCEPT !.pair = pair]
         IN  /\ b \in Request
             /\ b.what = what /\ b.typed = typed /\ b.remember = remember /\ b.pair = pair
             /\ b.pc = "sent" /\ b.answer = "none"
  BY DEF Fields, NoAsk, Request, None

LEMMA StoredType ==
  ASSUME Shape, NEW t \in Tabs
  PROVE  Stored(t) \in Nat /\ (PairsExist => Stored(t) <= Len(tokens))
  BY DEF Shape, Stored, PairsExist

LEMMA NewAsk ==
  ASSUME Shape, NEW t \in Tabs, NEW s \in Slots,
         NEW what \in Whats, NEW typed \in Nat, NEW remember \in BOOLEAN,
         Ask(t, s, Fields(what, typed, remember))
  PROVE  /\ ask' \in [Tabs -> [Slots -> Request]] /\ Only(t, s)
         /\ ask'[t][s].what = what /\ ask'[t][s].typed = typed
         /\ ask'[t][s].remember = remember /\ ask'[t][s].pair = Stored(t)
         /\ ask'[t][s].pc = "sent" /\ ask'[t][s].answer = "none"
<1>. DEFINE b == [Fields(what, typed, remember) EXCEPT !.pair = Stored(t)]
<1>1. /\ b \in Request
      /\ b.what = what /\ b.typed = typed /\ b.remember = remember /\ b.pair = Stored(t)
      /\ b.pc = "sent" /\ b.answer = "none"
  BY FieldsType, StoredType
<1>2. ask' = [ask EXCEPT ![t][s] = b]
  BY DEF Ask
<1>. HIDE DEF b
<1>. QED BY <1>1, <1>2, OneAsk

LEMMA FinishedAsk ==
  ASSUME Shape, NEW t \in Tabs, NEW s \in Slots, Finished(t, s)
  PROVE  ask' \in [Tabs -> [Slots -> Request]] /\ Only(t, s) /\ ask'[t][s] = NoAsk
<1>1. NoAsk \in Request
  BY DEF NoAsk, Request, None, Whats
<1>. QED BY <1>1, OneAsk DEF Finished

-----------------------------------------------------------------------------
(* The table of refresh tokens                                              *)

LEMMA RevokedTable ==
  ASSUME Shape
  PROVE  /\ RevokeAll(tokens) \in Seq(Token) /\ Len(RevokeAll(tokens)) = Len(tokens)
         /\ \A n \in 1..Len(tokens) : /\ ~RevokeAll(tokens)[n].live
                                      /\ RevokeAll(tokens)[n].family = tokens[n].family
                                      /\ RevokeAll(tokens)[n].under = tokens[n].under
<1>1. tokens \in [1..Len(tokens) -> Token] /\ Len(tokens) \in Nat /\ DOMAIN tokens = 1..Len(tokens)
  BY LenProperties DEF Shape
<1>2. \A n \in 1..Len(tokens) : [tokens[n] EXCEPT !.live = FALSE] \in Token
  BY <1>1 DEF Token
<1>3. RevokeAll(tokens) \in [1..Len(tokens) -> Token]
  BY <1>1, <1>2 DEF RevokeAll
<1>4. RevokeAll(tokens) \in Seq(Token)
  BY <1>1, <1>3, SeqDef
<1>5. DOMAIN RevokeAll(tokens) = 1..Len(tokens)
  BY <1>1 DEF RevokeAll
<1>6. Len(RevokeAll(tokens)) = Len(tokens)
  BY <1>1, <1>4, <1>5, LenProperties
<1>7. ASSUME NEW n \in 1..Len(tokens)
      PROVE  /\ ~RevokeAll(tokens)[n].live
             /\ RevokeAll(tokens)[n].family = tokens[n].family
             /\ RevokeAll(tokens)[n].under = tokens[n].under
  <2>1. RevokeAll(tokens)[n] = [tokens[n] EXCEPT !.live = FALSE] /\ tokens[n] \in Token
    BY <1>1, <1>7 DEF RevokeAll
  <2>. QED BY <2>1 DEF Token
<1>. QED BY <1>4, <1>6, <1>7

Revoked(table, p) == [table EXCEPT ![p].live = FALSE]

LEMMA OneRevoked ==
  ASSUME NEW table \in Seq(Token), NEW p \in 1..Len(table)
  PROVE  /\ Revoked(table, p) \in Seq(Token) /\ Len(Revoked(table, p)) = Len(table)
         /\ ~Revoked(table, p)[p].live
         /\ \A n \in 1..Len(table) : /\ Revoked(table, p)[n].family = table[n].family
                                     /\ Revoked(table, p)[n].under = table[n].under
                                     /\ n # p => Revoked(table, p)[n].live = table[n].live
<1>. DEFINE b == [table[p] EXCEPT !.live = FALSE]
            new == [table EXCEPT ![p] = b]
<1>1. table[p] \in Token
  BY ElementOfSeq
<1>2. b \in Token /\ ~b.live /\ b.family = table[p].family /\ b.under = table[p].under
  BY <1>1 DEF Token
<1>. HIDE DEF b
<1>3. new \in Seq(Token) /\ Len(new) = Len(table)
      /\ \A n \in 1..Len(table) : new[n] = IF n = p THEN b ELSE table[n]
  BY <1>2, ExceptSeq
<1>4. Revoked(table, p) = new
  BY DEF b, Revoked
<1>. HIDE DEF new
<1>5. ~new[p].live /\ \A n \in 1..Len(table) : /\ new[n].family = table[n].family
                                               /\ new[n].under = table[n].under
                                               /\ n # p => new[n].live = table[n].live
  BY <1>2, <1>3
<1>. QED BY <1>3, <1>4, <1>5

LEMMA IssuedTable ==
  ASSUME NEW table \in Seq(Token), NEW family \in Nat, NEW under \in Nat,
         NEW new, new = Issued(table, family, under)
  PROVE  /\ new \in Seq(Token) /\ Len(new) = Len(table) + 1
         /\ new[Len(table) + 1] = [live |-> TRUE, family |-> family, under |-> under]
         /\ \A n \in 1..Len(table) : new[n] = table[n]
<1>1. [live |-> TRUE, family |-> family, under |-> under] \in Token
  BY DEF Token
<1>. QED BY <1>1 DEF Issued

(* A token keeps its session and its password, and never lives again.       *)
TableGrows ==
  /\ tokens' \in Seq(Token) /\ Len(tokens) <= Len(tokens')
  /\ \A n \in 1..Len(tokens) : /\ tokens'[n].family = tokens[n].family
                               /\ tokens'[n].under = tokens[n].under
                               /\ tokens'[n].live => tokens[n].live

LEMMA TableUnchanged ==
  ASSUME Shape, tokens' = tokens
  PROVE  TableGrows /\ Len(tokens') = Len(tokens) /\ (Families => Families')
  BY DEF TableGrows, Shape, Families

LEMMA ExitTable ==
  ASSUME Sound, NEW t \in Tabs, NEW s \in Slots, CommitExit(t, s)
  PROVE  /\ TableGrows /\ Families' /\ Len(tokens') = Len(tokens)
         /\ LET p == ask[t][s].pair
            IN  /\ p # None => ~tokens'[p].live
                /\ \A n \in 1..Len(tokens) : n # p => tokens'[n].live = tokens[n].live
<1>. DEFINE p == ask[t][s].pair
<1>1. p \in Nat /\ p <= Len(tokens) /\ tokens \in Seq(Token) /\ Len(tokens) \in Nat
  BY DEF Sound, Shape, PairsExist, Request
<1>2. CASE p = None
  <2>1. tokens' = tokens
    BY <1>2 DEF CommitExit
  <2>. QED BY <1>2, <2>1, TableUnchanged DEF Sound
<1>3. CASE p # None
  <2>1. p \in 1..Len(tokens) /\ tokens' = [tokens EXCEPT ![p].live = FALSE]
    BY <1>1, <1>3 DEF CommitExit, None
  <2>. DEFINE after == Revoked(tokens, p)
  <2>2. /\ after \in Seq(Token) /\ Len(after) = Len(tokens) /\ ~after[p].live
        /\ \A n \in 1..Len(tokens) : /\ after[n].family = tokens[n].family
                                     /\ after[n].under = tokens[n].under
                                     /\ n # p => after[n].live = tokens[n].live
    <3>1. p \in 1..Len(tokens) /\ tokens \in Seq(Token)
      BY <1>1, <2>1
    <3>. QED BY <3>1, OneRevoked
  <2>3. tokens' = after
    BY <2>1 DEF Revoked
  <2>. HIDE DEF after
  <2>. QED BY <1>1, <2>2, <2>3 DEF TableGrows, Sound, Families
<1>. QED BY <1>2, <1>3

LEMMA RevokeTable ==
  ASSUME Sound, tokens' = RevokeAll(tokens)
  PROVE  /\ TableGrows /\ Families' /\ Len(tokens') = Len(tokens)
         /\ \A n \in 1..Len(tokens) : ~tokens'[n].live
<1>1. Shape /\ Families /\ Len(tokens) \in Nat
  BY DEF Sound, Shape
<1>. QED BY <1>1, RevokedTable DEF TableGrows, Families

LEMMA EntryTable ==
  ASSUME Sound, NEW t \in Tabs, NEW s \in Slots, CommitEntry(t, s), ask'[t][s].answer # "error"
  PROVE  LET m == Len(tokens) + 1
         IN  /\ TableGrows /\ Families' /\ Len(tokens') = m
             /\ tokens'[m].live /\ tokens'[m].family = m /\ tokens'[m].under = ask[t][s].typed
             /\ \A n \in 1..Len(tokens) : tokens'[n] = tokens[n]
             /\ active'
<1>. DEFINE m == Len(tokens) + 1
<1>1. ask[t][s].typed \in Nat /\ tokens \in Seq(Token) /\ Len(tokens) \in Nat /\ m \in Nat
  BY DEF Sound, Shape, Request
<1>2. tokens' = Issued(tokens, m, ask[t][s].typed) /\ active' = TRUE
  <2>1. CASE Answered(t, s, "error")
    BY <2>1, AnsweredAsk DEF Sound
  <2>. QED BY <2>1 DEF CommitEntry
<1>3. /\ tokens' \in Seq(Token) /\ Len(tokens') = m
      /\ tokens'[m] = [live |-> TRUE, family |-> m, under |-> ask[t][s].typed]
      /\ \A n \in 1..Len(tokens) : tokens'[n] = tokens[n]
  BY <1>1, <1>2, IssuedTable
<1>. QED BY <1>1, <1>2, <1>3 DEF TableGrows, Sound, Families

LEMMA RenewTable ==
  ASSUME Sound, NEW t \in Tabs, RenewCommit(t), active
  PROVE  LET m == Len(tokens) + 1
             p == renew[t].pair
         IN  /\ TableGrows /\ Families' /\ Len(tokens') = m /\ p \in 1..Len(tokens)
             /\ tokens'[m].live /\ ~tokens'[p].live
             /\ tokens'[m].family = tokens[p].family /\ tokens'[m].under = tokens[p].under
             /\ \A n \in 1..Len(tokens) : n # p => tokens'[n].live = tokens[n].live
<1>. DEFINE m == Len(tokens) + 1
            p == renew[t].pair
            between == Revoked(tokens, p)
<1>1. /\ p \in 1..Len(tokens) /\ tokens \in Seq(Token) /\ Len(tokens) \in Nat
      /\ tokens[p].family \in Nat /\ tokens[p].under \in Nat
  <2>1. renew[t].pc # "idle" /\ renew[t] \in Renewal
    BY DEF RenewCommit, Sound, Shape
  <2>2. p \in Nat /\ p # 0 /\ p <= Len(tokens)
    BY <2>1 DEF Sound, Coherence, PairsExist, None, Renewal
  <2>3. tokens \in Seq(Token) /\ Len(tokens) \in Nat
    BY DEF Sound, Shape
  <2>4. tokens[p] \in Token
    BY <2>2, <2>3
  <2>. QED BY <2>2, <2>3, <2>4 DEF Token
<1>2. /\ between \in Seq(Token) /\ Len(between) = Len(tokens) /\ ~between[p].live
      /\ \A n \in 1..Len(tokens) : /\ between[n].family = tokens[n].family
                                   /\ between[n].under = tokens[n].under
                                   /\ n # p => between[n].live = tokens[n].live
  BY <1>1, OneRevoked
<1>3. tokens' = Issued(between, tokens[p].family, tokens[p].under)
  BY DEF RenewCommit, Revoked
<1>. HIDE DEF between
<1>4. /\ tokens' \in Seq(Token) /\ Len(tokens') = m
      /\ tokens'[m] = [live |-> TRUE, family |-> tokens[p].family, under |-> tokens[p].under]
      /\ \A n \in 1..Len(tokens) : tokens'[n] = between[n]
  BY SMTT(30), <1>1, <1>2, <1>3, IssuedTable
<1>5. TableGrows
  <2>1. \A n \in 1..Len(tokens) : tokens'[n].live => tokens[n].live
    <3>1. SUFFICES ASSUME NEW n \in 1..Len(tokens), tokens'[n].live PROVE tokens[n].live
      OBVIOUS
    <3>2. n # p
      BY <1>2, <1>4, <3>1
    <3>. QED BY <1>2, <1>4, <3>1, <3>2
  <2>2. Len(tokens) <= Len(tokens')
    BY <1>1, <1>4
  <2>. QED BY <1>2, <1>4, <2>1, <2>2 DEF TableGrows
<1>6. Families'
  <2>1. ASSUME NEW n \in 1..Len(tokens') PROVE 1 <= tokens'[n].family /\ tokens'[n].family <= n
    <3>1. CASE n = m
      BY <1>1, <1>4, <3>1 DEF Sound, Families
    <3>2. CASE n # m
      <4>1. n \in 1..Len(tokens) /\ tokens'[n].family = tokens[n].family
        BY <1>1, <1>2, <1>4, <2>1, <3>2
      <4>. QED BY <4>1 DEF Sound, Families
    <3>. QED BY <3>1, <3>2
  <2>. QED BY <2>1 DEF Families
<1>7. ~tokens'[p].live /\ \A n \in 1..Len(tokens) : n # p => tokens'[n].live = tokens[n].live
  BY <1>1, <1>2, <1>4
<1>. QED BY <1>1, <1>4, <1>5, <1>6, <1>7

-----------------------------------------------------------------------------
(* Every variable stays sound                                               *)

(* Sound by the parts that an action changes.                               *)
ServerSound ==
  /\ active \in BOOLEAN /\ password \in Nat /\ codes \in Seq(Code)
  /\ tokens \in Seq(Token) /\ Families

BrowserSound ==
  /\ local \in Nat /\ local <= Len(tokens)
  /\ session \in [Tabs -> Nat] /\ \A t \in Tabs : session[t] <= Len(tokens)
  /\ screen \in [Tabs -> {"auth", "app"}]

RequestSound(t, s, a) ==
  /\ Coherent(a) /\ a.pair <= Len(tokens)
  /\ s = "background" => a.what \in {"none", "poll"}

AskSound ==
  /\ ask \in [Tabs -> [Slots -> Request]]
  /\ \A t \in Tabs, s \in Slots : RequestSound(t, s, ask[t][s])

RenewalSound(a) ==
  /\ a.pc = "idle" => a = NoRenewal
  /\ a.pc # "idle" => a.pair # None
  /\ a.pc # "answered" => a.answer = None
  /\ a.pair <= Len(tokens) /\ a.answer <= Len(tokens)

RenewSound ==
  /\ renew \in [Tabs -> Renewal]
  /\ \A t \in Tabs : RenewalSound(renew[t])

CountsSound == commands \in Seq(Whats) /\ failures \in Nat

LEMMA SoundParts ==
  ASSUME Sound
  PROVE  ServerSound /\ BrowserSound /\ AskSound /\ RenewSound /\ CountsSound /\ Len(tokens) \in Nat
  BY DEF Sound, Shape, Families, PairsExist, Coherence, ServerSound, BrowserSound, AskSound,
         RequestSound, RenewSound, RenewalSound, CountsSound, Slots

LEMMA Assemble ==
  ASSUME ServerSound', BrowserSound', AskSound', RenewSound', CountsSound'
  PROVE  Sound'
<1>1. Shape' /\ Families'
  BY DEF Shape, ServerSound, BrowserSound, AskSound, RenewSound, CountsSound
<1>2. PairsExist'
  BY DEF PairsExist, BrowserSound, AskSound, RequestSound, RenewSound, RenewalSound
<1>3. Coherence'
  BY DEF Coherence, AskSound, RequestSound, RenewSound, RenewalSound, Slots
<1>. QED BY <1>1, <1>2, <1>3 DEF Sound

(* What an action leaves alone stays sound while the table grows.           *)
LEMMA ServerStays ==
  ASSUME Sound, UNCHANGED server
  PROVE  ServerSound' /\ TableGrows /\ tokens' = tokens
  BY SoundParts, TableUnchanged DEF server, ServerSound, Sound, Families

LEMMA BrowserStays ==
  ASSUME Sound, UNCHANGED browser, TableGrows
  PROVE  BrowserSound'
  BY SoundParts DEF BrowserSound, TableGrows, browser

LEMMA RenewStays ==
  ASSUME Sound, UNCHANGED renew, TableGrows
  PROVE  RenewSound'
<1>1. RenewSound /\ Len(tokens) \in Nat /\ Len(tokens') \in Nat /\ Len(tokens) <= Len(tokens')
  BY SoundParts DEF TableGrows
<1>2. ASSUME NEW t \in Tabs PROVE RenewalSound(renew[t])'
  BY <1>1, <1>2 DEF RenewSound, RenewalSound, Renewal
<1>. QED BY <1>1, <1>2 DEF RenewSound

LEMMA AskStays ==
  ASSUME Sound, NEW t \in Tabs, NEW s \in Slots, TableGrows,
         ask' \in [Tabs -> [Slots -> Request]], Only(t, s), RequestSound(t, s, ask[t][s])'
  PROVE  AskSound'
<1>1. AskSound /\ Len(tokens) \in Nat /\ Len(tokens') \in Nat /\ Len(tokens) <= Len(tokens')
  BY SoundParts DEF TableGrows
<1>2. ASSUME NEW u \in Tabs, NEW r \in Slots PROVE RequestSound(u, r, ask[u][r])'
  <2>1. CASE u = t /\ r = s
    BY <2>1
  <2>2. CASE u # t \/ r # s
    <3>1. ask'[u][r] = ask[u][r] /\ ask[u][r] \in Request
      BY <1>1, <1>2, <2>2 DEF Only, AskSound
    <3>2. RequestSound(u, r, ask[u][r])
      BY <1>1 DEF AskSound
    <3>. QED BY <1>1, <3>1, <3>2 DEF RequestSound, Request
  <2>. QED BY <2>1, <2>2
<1>. QED BY <1>2 DEF AskSound

LEMMA AsksStay ==
  ASSUME Sound, UNCHANGED ask, TableGrows
  PROVE  AskSound'
<1>1. AskSound /\ Len(tokens) \in Nat /\ Len(tokens') \in Nat /\ Len(tokens) <= Len(tokens')
  BY SoundParts DEF TableGrows
<1>2. ASSUME NEW u \in Tabs, NEW r \in Slots PROVE RequestSound(u, r, ask[u][r])'
  BY <1>1, <1>2 DEF AskSound, RequestSound, Request
<1>. QED BY <1>1, <1>2 DEF AskSound

LEMMA CountsStay ==
  ASSUME Sound, UNCHANGED <<commands, failures>>
  PROVE  CountsSound'
  BY SoundParts DEF CountsSound

LEMMA InitSound ==
  ASSUME Init
  PROVE  Sound
<1>1. tokens = <<[live |-> TRUE, family |-> 1, under |-> 1]>> /\ tokens \in Seq(Token) /\ Len(tokens) = 1
      /\ tokens[1].family = 1
  BY DEF Init, Token
<1>2. NoAsk \in Request /\ Coherent(NoAsk) /\ NoAsk.pair = 0 /\ NoAsk.what = "none"
  BY DEF NoAsk, Request, Coherent, None, Whats, Authorised
<1>3. NoRenewal \in Renewal /\ NoRenewal.pair = 0 /\ NoRenewal.answer = 0 /\ NoRenewal.pc = "idle"
  BY DEF NoRenewal, Renewal, None
<1>4. Shape
  BY <1>1, <1>2, <1>3 DEF Init, Shape, None
<1>5. Families
  BY <1>1 DEF Families
<1>6. PairsExist
  BY <1>1, <1>2, <1>3 DEF PairsExist, Init, None, Slots
<1>7. Coherence
  BY <1>2, <1>3 DEF Coherence, Init, Slots, None
<1>. QED BY <1>4, <1>5, <1>6, <1>7 DEF Sound

(* What the forms send.                                                     *)
LEMMA FormFields ==
  ASSUME Shape, NEW t \in Tabs, NEW f \in Forms(t)
  PROVE  \E what \in Whats \ {"none", "poll", "me"}, typed \in Nat, remember \in BOOLEAN :
           /\ f = Fields(what, typed, remember) /\ f.what = what
           /\ what \in {"login", "register", "patch", "delete"} => typed = password
<1>1. password \in Nat /\ Len(codes) \in Nat /\ 0 \in Nat
  BY DEF Shape
<1>2. \E what \in Whats \ {"none", "poll", "me"}, typed \in Nat, remember \in BOOLEAN :
        /\ f = Fields(what, typed, remember)
        /\ what \in {"login", "register", "patch", "delete"} => typed = password
  <2>1. CASE f \in {Fields("login", password, r) : r \in BOOLEAN}
    BY <1>1, <2>1 DEF Whats
  <2>2. CASE f \in {Fields("register", password, FALSE), Fields("patch", password, FALSE),
                    Fields("delete", password, FALSE)}
    BY <1>1, <2>2 DEF Whats
  <2>3. ASSUME NEW what \in {"code", "logout", "reset"}, NEW n \in Nat, f = Fields(what, n, FALSE)
        PROVE  \E w \in Whats \ {"none", "poll", "me"}, typed \in Nat, remember \in BOOLEAN :
                 /\ f = Fields(w, typed, remember)
                 /\ w \in {"login", "register", "patch", "delete"} => typed = password
    <3>1. what \in Whats \ {"none", "poll", "me"} /\ FALSE \in BOOLEAN
          /\ what \notin {"login", "register", "patch", "delete"}
      BY <2>3 DEF Whats
    <3>. QED BY <2>3, <3>1
  <2>4. CASE f \in {Fields("code", None, FALSE), Fields("logout", None, FALSE)}
             \/ f \in {Fields("reset", n, FALSE) : n \in 1..Len(codes)}
    <3>1. \E what \in {"code", "logout", "reset"}, n \in Nat : f = Fields(what, n, FALSE)
      <4>1. CASE f = Fields("code", None, FALSE)
        BY <1>1, <4>1 DEF None
      <4>2. CASE f = Fields("logout", None, FALSE)
        BY <1>1, <4>2 DEF None
      <4>3. ASSUME NEW n \in 1..Len(codes), f = Fields("reset", n, FALSE)
            PROVE  \E what \in {"code", "logout", "reset"}, k \in Nat : f = Fields(what, k, FALSE)
        <5>1. n \in Nat
          BY <1>1, <4>3
        <5>2. WITNESS "reset" \in {"code", "logout", "reset"}, n \in Nat
        <5>. QED BY <4>3
      <4>. QED BY <2>4, <4>1, <4>2, <4>3
    <3>. QED BY <2>3, <3>1
  <2>. QED BY <2>1, <2>2, <2>4 DEF Forms
<1>. QED BY <1>2 DEF Fields, NoAsk

(* A request that has just been sent.                                       *)
LEMMA SentIsCoherent ==
  ASSUME NEW a, a.pc = "sent", a.answer = "none", a.what # "none"
  PROVE  Coherent(a)
  BY DEF Coherent

LEMMA AnsweredIsCoherent ==
  ASSUME NEW a, a.pc = "answered", a.answer \in {"ok", "error", "denied"}, a.what # "none",
         a.answer = "denied" => a.what \in Authorised
  PROVE  Coherent(a)
  BY DEF Coherent

LEMMA AskingSound ==
  ASSUME Sound, NEW t \in Tabs, Open(t) \/ Poll(t) \/ Submit(t)
  PROVE  Sound'
<1>1. Shape /\ PairsExist /\ Stored(t) <= Len(tokens)
  BY StoredType DEF Sound
<1>2. UNCHANGED <<server, browser, renew, failures>>
  BY DEF Open, Poll, Submit
<1>3. ServerSound' /\ TableGrows /\ tokens' = tokens
  BY <1>2, ServerStays
<1>4. BrowserSound' /\ RenewSound'
  BY <1>2, <1>3, BrowserStays, RenewStays
<1>5. ASSUME NEW s \in Slots, NEW what \in Whats \ {"none"}, NEW typed \in Nat,
             NEW remember \in BOOLEAN,
             Ask(t, s, Fields(what, typed, remember)), s = "background" => what = "poll"
      PROVE  AskSound'
  <2>1. /\ ask' \in [Tabs -> [Slots -> Request]] /\ Only(t, s)
        /\ ask'[t][s].what = what /\ ask'[t][s].pair = Stored(t)
        /\ ask'[t][s].pc = "sent" /\ ask'[t][s].answer = "none"
    BY <1>1, <1>5, NewAsk
  <2>2. RequestSound(t, s, ask[t][s])'
    BY <1>1, <1>3, <1>5, <2>1, SentIsCoherent DEF RequestSound
  <2>. QED BY <1>3, <2>1, <2>2, AskStays
<1>6. CASE Open(t)
  <2>1. AskSound'
    BY <1>5, <1>6 DEF Open, Slots, Whats, None
  <2>2. CountsSound'
    BY <1>6, CountsStay DEF Open
  <2>. QED BY <1>3, <1>4, <2>1, <2>2, Assemble
<1>7. CASE Poll(t)
  <2>1. AskSound'
    BY <1>5, <1>7 DEF Poll, Slots, Whats, None
  <2>2. CountsSound'
    BY <1>7, CountsStay DEF Poll
  <2>. QED BY <1>3, <1>4, <2>1, <2>2, Assemble
<1>8. CASE Submit(t)
  <2>1. PICK f \in Forms(t) : Ask(t, "form", f) /\ commands' = Append(commands, f.what)
    BY <1>8 DEF Submit
  <2>2. PICK what \in Whats \ {"none"}, typed \in Nat, remember \in BOOLEAN :
          f = Fields(what, typed, remember) /\ f.what = what
    BY <1>1, FormFields
  <2>3. AskSound'
    BY <1>5, <2>1, <2>2 DEF Slots
  <2>4. CountsSound'
    BY <1>2, <2>1, <2>2, SoundParts DEF CountsSound
  <2>. QED BY <1>3, <1>4, <2>3, <2>4, Assemble
<1>. QED BY <1>6, <1>7, <1>8

(* What a check leaves behind.                                              *)
LEMMA CheckFacts ==
  ASSUME Sound, NEW t \in Tabs, NEW s \in Slots, Check(t, s)
  PROVE  /\ UNCHANGED <<server, browser, renew, commands, failures>>
         /\ ask' \in [Tabs -> [Slots -> Request]] /\ Only(t, s)
         /\ ask'[t][s].what = ask[t][s].what /\ ask'[t][s].typed = ask[t][s].typed
         /\ ask'[t][s].remember = ask[t][s].remember /\ ask'[t][s].pair = ask[t][s].pair
         /\ ask[t][s].pc = "sent"
         /\ \/ /\ ask'[t][s].pc = "answered"
               /\ \/ ask'[t][s].answer = "denied" /\ ask[t][s].what \in Authorised
                  \/ /\ ask'[t][s].answer = "error"
                     /\ ~Passes(ask[t][s]) \/ (ask[t][s].what \in Authorised /\ ~active)
                  \/ ask'[t][s].answer = "ok" /\ ask[t][s].what \in {"poll", "me"}
            \/ /\ ask'[t][s].pc = "checked" /\ ask'[t][s].answer = "none"
               /\ ask[t][s].what \notin {"poll", "me"} /\ Passes(ask[t][s])
               /\ ask'[t][s].seen = Valid
<1>. DEFINE a == ask[t][s]
<1>1. Shape /\ ask[t][s].pc = "sent" /\ UNCHANGED <<server, browser, renew, commands, failures>>
  BY DEF Check, Sound
<1>2. ask[t][s].answer = "none"
  BY <1>1, SoundParts DEF AskSound, RequestSound, Coherent
<1>3. Valid \in SUBSET Nat
  BY <1>1 DEF Valid, Shape
<1>. HIDE DEF Valid
<1>4. CASE Answered(t, s, "denied") /\ a.what \in Authorised
  BY <1>1, <1>4, AnsweredAsk DEF Same
<1>5. CASE Answered(t, s, "error") /\ (~Passes(a) \/ (a.what \in Authorised /\ ~active))
  BY <1>1, <1>5, AnsweredAsk DEF Same
<1>6. CASE Answered(t, s, "ok") /\ a.what \in {"poll", "me"}
  BY <1>1, <1>6, AnsweredAsk DEF Same
<1>7. CASE /\ ask' = [ask EXCEPT ![t][s] = [@ EXCEPT !.pc = "checked", !.seen = Valid]]
           /\ a.what \notin {"poll", "me"} /\ Passes(a)
  <2>. HIDE DEF a
  <2>1. /\ ask' \in [Tabs -> [Slots -> Request]] /\ Only(t, s)
        /\ ask'[t][s].what = ask[t][s].what /\ ask'[t][s].typed = ask[t][s].typed
        /\ ask'[t][s].remember = ask[t][s].remember
        /\ ask'[t][s].pair = ask[t][s].pair /\ ask'[t][s].answer = ask[t][s].answer
        /\ ask'[t][s].pc = "checked" /\ ask'[t][s].seen = Valid
    <3>1. Looked(t, s, Valid)
      BY <1>7 DEF Looked
    <3>. QED BY <1>1, <1>3, <3>1, CheckedAsk
  <2>. QED BY <1>1, <1>2, <1>7, <2>1 DEF a
<1>. QED BY <1>4, <1>5, <1>6, <1>7 DEF Check

LEMMA CheckSound ==
  ASSUME Sound, NEW t \in Tabs, NEW s \in Slots, Check(t, s)
  PROVE  Sound'
<1>1. ServerSound' /\ TableGrows /\ tokens' = tokens
  BY CheckFacts, ServerStays DEF Check
<1>2. BrowserSound' /\ RenewSound' /\ CountsSound'
  BY <1>1, CheckFacts, BrowserStays, RenewStays, CountsStay DEF Check
<1>3. RequestSound(t, s, ask[t][s])'
  <2>1. RequestSound(t, s, ask[t][s])
    BY SoundParts DEF AskSound
  <2>2. ask'[t][s].what = ask[t][s].what /\ ask'[t][s].pair = ask[t][s].pair
    BY CheckFacts
  <2>3. Coherent(ask'[t][s])
    BY <2>1, CheckFacts DEF Coherent, RequestSound
  <2>. QED BY <1>1, <2>1, <2>2, <2>3 DEF RequestSound
<1>4. AskSound'
  BY <1>1, <1>3, CheckFacts, AskStays
<1>. QED BY <1>1, <1>2, <1>4, Assemble

(* A login or a registration.                                               *)
LEMMA EntryFacts ==
  ASSUME Sound, NEW t \in Tabs, NEW s \in Slots, CommitEntry(t, s)
  PROVE  /\ UNCHANGED <<password, codes, recent, expired, browser, renew, commands, failures>>
         /\ ask' \in [Tabs -> [Slots -> Request]] /\ Only(t, s)
         /\ Same(ask'[t][s], ask[t][s]) /\ ask'[t][s].pc = "answered"
         /\ ask[t][s].pc = "checked" /\ ask[t][s].what \in {"register", "login"}
         /\ \/ /\ ask'[t][s].answer = "error" /\ ask'[t][s].pair = ask[t][s].pair
               /\ UNCHANGED <<active, tokens>> /\ (ask[t][s].what = "register") = active
            \/ /\ ask'[t][s].answer = "ok" /\ ask'[t][s].pair = Len(tokens) + 1
<1>. DEFINE a == ask[t][s]
            b == [a EXCEPT !.pc = "answered", !.answer = "ok", !.pair = Len(tokens) + 1]
<1>1. Shape /\ a \in Request /\ Len(tokens) + 1 \in Nat /\ a.pc = "checked"
      /\ a.what \in {"register", "login"}
      /\ UNCHANGED <<password, codes, recent, expired, browser, renew, commands, failures>>
  BY DEF CommitEntry, Sound, Shape
<1>2. CASE /\ Answered(t, s, "error") /\ UNCHANGED <<active, tokens>>
           /\ (a.what = "register") = active
  BY <1>1, <1>2, AnsweredAsk
<1>3. CASE ask' = [ask EXCEPT ![t][s] = b]
  <2>1. b \in Request
    BY <1>1 DEF Request
  <2>2. Same(b, a) /\ b.pc = "answered" /\ b.answer = "ok" /\ b.pair = Len(tokens) + 1
    BY <1>1 DEF Request, Same
  <2>. HIDE DEF b
  <2>3. ask' \in [Tabs -> [Slots -> Request]] /\ ask'[t][s] = b /\ Only(t, s)
    BY <1>1, <1>3, <2>1, OneAsk
  <2>. QED BY <1>1, <2>2, <2>3
<1>. QED BY <1>2, <1>3 DEF CommitEntry

(* An answered request of a form stays coherent.                            *)
LEMMA AnswerSound ==
  ASSUME Sound, NEW t \in Tabs, NEW s \in Slots, TableGrows,
         ask' \in [Tabs -> [Slots -> Request]], Only(t, s),
         ask[t][s].pc # "idle", ask'[t][s].what = ask[t][s].what, ask'[t][s].pc = "answered",
         ask'[t][s].answer \in {"ok", "error"}, ask'[t][s].pair <= Len(tokens')
  PROVE  AskSound'
<1>1. RequestSound(t, s, ask[t][s])
  BY SoundParts DEF AskSound
<1>2. Coherent(ask'[t][s])
  BY <1>1, AnsweredIsCoherent DEF RequestSound, Coherent
<1>3. RequestSound(t, s, ask[t][s])'
  BY <1>1, <1>2 DEF RequestSound
<1>. QED BY <1>3, AskStays

LEMMA EntrySound ==
  ASSUME Sound, NEW t \in Tabs, NEW s \in Slots, CommitEntry(t, s)
  PROVE  Sound'
<1>1. UNCHANGED <<password, codes, browser, renew, commands, failures>>
  BY EntryFacts
<1>2. /\ TableGrows /\ Families' /\ active' \in BOOLEAN /\ ask'[t][s].pair <= Len(tokens')
      /\ tokens' \in Seq(Token)
  <2>1. CASE ask'[t][s].answer = "error"
    <3>1. UNCHANGED <<active, tokens>> /\ ask'[t][s].pair = ask[t][s].pair
      BY <2>1, EntryFacts
    <3>2. ask[t][s].pair <= Len(tokens)
      BY DEF Sound, PairsExist
    <3>. QED BY <3>1, <3>2, TableUnchanged DEF Sound, Shape
  <2>2. CASE ask'[t][s].answer # "error"
    <3>1. ask'[t][s].pair = Len(tokens) + 1
      BY <2>2, EntryFacts
    <3>2. TableGrows /\ Families' /\ Len(tokens') = Len(tokens) + 1
      BY <2>2, EntryTable
    <3>3. active' = TRUE
      <4>1. ~Answered(t, s, "error")
        BY <2>2, AnsweredAsk DEF Sound
      <4>. QED BY <4>1 DEF CommitEntry
    <3>4. Len(tokens') \in Nat
      BY <3>2 DEF TableGrows
    <3>. QED BY <3>1, <3>2, <3>3, <3>4 DEF TableGrows
  <2>. QED BY <2>1, <2>2
<1>3. ServerSound'
  BY <1>1, <1>2, SoundParts DEF ServerSound
<1>4. BrowserSound' /\ RenewSound' /\ CountsSound'
  BY <1>1, <1>2, BrowserStays, RenewStays, CountsStay
<1>5. AskSound'
  BY <1>2, EntryFacts, AnswerSound DEF Same
<1>. QED BY <1>3, <1>4, <1>5, Assemble

LEMMA WithoutCodesType ==
  ASSUME Shape, NEW S
  PROVE  /\ WithoutCodes(S) \in Seq(Code) /\ Len(WithoutCodes(S)) = Len(codes)
         /\ \A n \in 1..Len(codes) :
              WithoutCodes(S)[n] = "valid" <=> codes[n] = "valid" /\ n \notin S
<1>1. codes \in [1..Len(codes) -> Code] /\ Len(codes) \in Nat
  BY LenProperties DEF Shape
<1>2. WithoutCodes(S) \in [1..Len(codes) -> Code]
  BY <1>1 DEF WithoutCodes, Code
<1>3. WithoutCodes(S) \in Seq(Code)
  BY <1>1, <1>2, SeqDef
<1>4. Len(WithoutCodes(S)) = Len(codes)
  BY <1>1, <1>3, LenProperties DEF WithoutCodes
<1>5. \A n \in 1..Len(codes) : WithoutCodes(S)[n] = IF n \in S THEN "used" ELSE codes[n]
  BY DEF WithoutCodes
<1>. QED BY <1>3, <1>4, <1>5

(* The other commits.                                                       *)
LEMMA CommitFacts ==
  ASSUME Sound, NEW t \in Tabs, NEW s \in Slots,
         CommitExit(t, s) \/ CommitCode(t, s) \/ CommitPassword(t, s) \/ CommitDelete(t, s)
  PROVE  /\ UNCHANGED <<browser, renew, commands, failures>>
         /\ ask' \in [Tabs -> [Slots -> Request]] /\ Only(t, s)
         /\ Same(ask'[t][s], ask[t][s]) /\ ask'[t][s].pair = ask[t][s].pair
         /\ ask'[t][s].pc = "answered" /\ ask'[t][s].answer \in {"ok", "error"}
         /\ ask[t][s].pc = "checked"
<1>1. Shape
  BY DEF Sound
<1>2. CASE CommitExit(t, s)
  BY <1>1, <1>2, AnsweredAsk DEF CommitExit
<1>3. CASE CommitCode(t, s)
  <2>1. Answered(t, s, "ok") \/ Answered(t, s, "error")
    BY <1>3 DEF CommitCode
  <2>. QED BY <1>1, <1>3, <2>1, AnsweredAsk DEF CommitCode
<1>4. CASE CommitPassword(t, s)
  <2>1. Answered(t, s, "ok") \/ Answered(t, s, "error")
    BY <1>4 DEF CommitPassword
  <2>. QED BY <1>1, <1>4, <2>1, AnsweredAsk DEF CommitPassword
<1>5. CASE CommitDelete(t, s)
  BY <1>1, <1>5, AnsweredAsk DEF CommitDelete
<1>. QED BY <1>2, <1>3, <1>4, <1>5

LEMMA CommitServer ==
  ASSUME Sound, NEW t \in Tabs, NEW s \in Slots,
         CommitExit(t, s) \/ CommitCode(t, s) \/ CommitPassword(t, s) \/ CommitDelete(t, s)
  PROVE  ServerSound' /\ TableGrows /\ Len(tokens') = Len(tokens)
<1>1. Shape /\ ServerSound
  BY SoundParts DEF Sound
<1>2. CASE CommitExit(t, s)
  BY <1>1, <1>2, ExitTable DEF CommitExit, ServerSound, TableGrows
<1>3. CASE CommitCode(t, s)
  <2>1. tokens' = tokens /\ UNCHANGED <<active, password>>
    BY <1>3 DEF CommitCode
  <2>2. codes' \in Seq(Code)
    <3>1. CASE UNCHANGED codes
      BY <1>1, <3>1 DEF ServerSound
    <3>2. ASSUME NEW S, codes' = Append(WithoutCodes(S), "valid") PROVE codes' \in Seq(Code)
      <4>1. WithoutCodes(S) \in Seq(Code) /\ "valid" \in Code
        BY <1>1, WithoutCodesType DEF Code
      <4>. QED BY <3>2, <4>1
    <3>. QED BY <1>3, <3>1, <3>2 DEF CommitCode
  <2>3. TableGrows /\ Families' /\ Len(tokens') = Len(tokens)
    BY <1>1, <2>1, TableUnchanged DEF Sound
  <2>. QED BY <1>1, <2>1, <2>2, <2>3 DEF ServerSound
<1>4. CASE CommitPassword(t, s)
  <2>1. CASE active
    <3>1. tokens' = RevokeAll(tokens) /\ password' = password + 1 /\ active' = active
      BY <1>4, <2>1 DEF CommitPassword
    <3>2. codes' \in Seq(Code)
      BY <1>1, <1>4, <2>1, WithoutCodesType DEF CommitPassword, ServerSound
    <3>. QED BY <1>1, <3>1, <3>2, RevokeTable DEF ServerSound, TableGrows
  <2>2. CASE ~active
    <3>1. UNCHANGED <<active, password, codes>> /\ tokens' = tokens
      BY <1>4, <2>2 DEF CommitPassword
    <3>. QED BY <1>1, <3>1, TableUnchanged DEF ServerSound, Sound
  <2>. QED BY <2>1, <2>2
<1>5. CASE CommitDelete(t, s)
  <2>1. tokens' = RevokeAll(tokens) /\ password' = password /\ active' = FALSE
        /\ codes' = WithoutCodes(Valid)
    BY <1>5 DEF CommitDelete
  <2>2. codes' \in Seq(Code)
    BY <1>1, <2>1, WithoutCodesType
  <2>. QED BY <1>1, <2>1, <2>2, RevokeTable DEF ServerSound, TableGrows
<1>. QED BY <1>2, <1>3, <1>4, <1>5

LEMMA CommitSound ==
  ASSUME Sound, NEW t \in Tabs, NEW s \in Slots,
         CommitExit(t, s) \/ CommitCode(t, s) \/ CommitPassword(t, s) \/ CommitDelete(t, s)
  PROVE  Sound'
<1>1. ServerSound' /\ TableGrows /\ Len(tokens') = Len(tokens)
  BY CommitServer
<1>2. UNCHANGED <<browser, renew, commands, failures>>
  BY CommitFacts
<1>3. BrowserSound' /\ RenewSound' /\ CountsSound'
  BY <1>1, <1>2, BrowserStays, RenewStays, CountsStay
<1>4. AskSound'
  <2>1. ask[t][s].pair <= Len(tokens)
    BY DEF Sound, PairsExist
  <2>. QED BY <1>1, <2>1, CommitFacts, AnswerSound DEF Same
<1>. QED BY <1>1, <1>3, <1>4, Assemble

-----------------------------------------------------------------------------
(* A refresh                                                                *)

OnlyRenew(t) == \A u \in Tabs : u # t => renew'[u] = renew[u]

LEMMA OneRenewal ==
  ASSUME Shape, NEW t \in Tabs, NEW a \in Renewal, renew' = [renew EXCEPT ![t] = a]
  PROVE  renew' \in [Tabs -> Renewal] /\ renew'[t] = a /\ OnlyRenew(t)
  BY DEF Shape, OnlyRenew

LEMMA RenewalStays ==
  ASSUME Sound, NEW t \in Tabs, TableGrows,
         renew' \in [Tabs -> Renewal], OnlyRenew(t), RenewalSound(renew[t])'
  PROVE  RenewSound'
<1>1. RenewSound /\ Len(tokens) \in Nat /\ Len(tokens') \in Nat /\ Len(tokens) <= Len(tokens')
  BY SoundParts DEF TableGrows
<1>2. ASSUME NEW u \in Tabs PROVE RenewalSound(renew[u])'
  <2>1. CASE u = t
    BY <2>1
  <2>2. CASE u # t
    <3>1. renew'[u] = renew[u] /\ renew[u] \in Renewal /\ RenewalSound(renew[u])
      BY <1>1, <1>2, <2>2 DEF OnlyRenew, RenewSound
    <3>. QED BY <1>1, <3>1 DEF RenewalSound, Renewal
  <2>. QED BY <2>1, <2>2
<1>. QED BY <1>2 DEF RenewSound

(* What the two steps of the handler and a lost refresh do to it.           *)
LEMMA RenewCheckFacts ==
  ASSUME Sound, NEW t \in Tabs, RenewCheck(t)
  PROVE  /\ UNCHANGED <<server, browser, ask, commands, failures>>
         /\ renew' \in [Tabs -> Renewal] /\ OnlyRenew(t)
         /\ renew[t].pc = "sent" /\ renew'[t].pair = renew[t].pair
         /\ renew'[t].answer = None
         /\ \/ renew'[t].pc = "checked" /\ tokens[renew[t].pair].live
            \/ renew'[t].pc = "answered" /\ ~tokens[renew[t].pair].live
<1>1. Shape /\ renew[t] \in Renewal /\ renew[t].pc = "sent" /\ renew[t].answer = None
      /\ UNCHANGED <<server, browser, ask, commands, failures>>
  BY DEF RenewCheck, Sound, Shape, Coherence
<1>2. CASE tokens[renew[t].pair].live
  <2>1. renew' = [renew EXCEPT ![t] = [renew[t] EXCEPT !.pc = "checked"]]
    BY <1>2 DEF RenewCheck
  <2>2. /\ [renew[t] EXCEPT !.pc = "checked"] \in Renewal
        /\ [renew[t] EXCEPT !.pc = "checked"].pc = "checked"
        /\ [renew[t] EXCEPT !.pc = "checked"].pair = renew[t].pair
        /\ [renew[t] EXCEPT !.pc = "checked"].answer = None
    BY <1>1 DEF Renewal, None
  <2>. QED BY <1>1, <1>2, <2>1, <2>2, OneRenewal
<1>3. CASE ~tokens[renew[t].pair].live
  <2>1. renew' = [renew EXCEPT ![t] = [renew[t] EXCEPT !.pc = "answered"]]
    BY <1>3 DEF RenewCheck
  <2>2. /\ [renew[t] EXCEPT !.pc = "answered"] \in Renewal
        /\ [renew[t] EXCEPT !.pc = "answered"].pc = "answered"
        /\ [renew[t] EXCEPT !.pc = "answered"].pair = renew[t].pair
        /\ [renew[t] EXCEPT !.pc = "answered"].answer = None
    BY <1>1 DEF Renewal, None
  <2>. QED BY <1>1, <1>3, <2>1, <2>2, OneRenewal
<1>. QED BY <1>2, <1>3

LEMMA RenewCommitFacts ==
  ASSUME Sound, NEW t \in Tabs, RenewCommit(t)
  PROVE  /\ UNCHANGED <<active, password, codes, recent, browser, ask, commands, failures>>
         /\ renew' \in [Tabs -> Renewal] /\ OnlyRenew(t)
         /\ renew[t].pc = "checked" /\ renew'[t].pc = "answered"
         /\ renew'[t].pair = renew[t].pair
         /\ \/ active /\ renew'[t].answer = Len(tokens) + 1
            \/ ~active /\ renew'[t].answer = None /\ tokens' = tokens
<1>1. Shape /\ renew[t] \in Renewal /\ renew[t].pc = "checked" /\ renew[t].answer = None
      /\ UNCHANGED <<active, password, codes, recent, browser, ask, commands, failures>>
      /\ Len(tokens) + 1 \in Nat
  BY DEF RenewCommit, Sound, Shape, Coherence
<1>2. CASE active
  <2>. DEFINE b == [renew[t] EXCEPT !.pc = "answered", !.answer = Len(tokens) + 1]
  <2>1. renew' = [renew EXCEPT ![t] = b]
    BY <1>2 DEF RenewCommit
  <2>2. b \in Renewal /\ b.pc = "answered" /\ b.pair = renew[t].pair /\ b.answer = Len(tokens) + 1
    BY <1>1 DEF Renewal
  <2>. HIDE DEF b
  <2>. QED BY <1>1, <1>2, <2>1, <2>2, OneRenewal
<1>3. CASE ~active
  <2>. DEFINE b == [renew[t] EXCEPT !.pc = "answered"]
  <2>1. renew' = [renew EXCEPT ![t] = b] /\ tokens' = tokens
    BY <1>3 DEF RenewCommit
  <2>2. b \in Renewal /\ b.pc = "answered" /\ b.pair = renew[t].pair /\ b.answer = None
    BY <1>1 DEF Renewal, None
  <2>. HIDE DEF b
  <2>. QED BY <1>1, <1>3, <2>1, <2>2, OneRenewal
<1>. QED BY <1>2, <1>3

LEMMA LoseRenewalFacts ==
  ASSUME Sound, NEW t \in Tabs, LoseRenewal(t)
  PROVE  /\ UNCHANGED <<server, browser, ask, commands>>
         /\ failures' \in Nat /\ failures' # 0
         /\ renew' \in [Tabs -> Renewal] /\ OnlyRenew(t)
         /\ renew[t].pc \in {"sent", "answered"} /\ renew'[t].pc = "answered"
         /\ renew'[t].pair = renew[t].pair /\ renew'[t].answer = None
<1>1. Shape /\ renew[t] \in Renewal /\ renew[t].pc \in {"sent", "answered"}
      /\ UNCHANGED <<server, browser, ask, commands>>
      /\ failures' \in Nat /\ failures' # 0
  BY DEF LoseRenewal, Sound, Shape, Fail
<1>. DEFINE b == [renew[t] EXCEPT !.pc = "answered", !.answer = None]
<1>2. renew' = [renew EXCEPT ![t] = b]
  BY DEF LoseRenewal
<1>3. b \in Renewal /\ b.pc = "answered" /\ b.pair = renew[t].pair /\ b.answer = None
  BY <1>1 DEF Renewal, None
<1>. HIDE DEF b
<1>. QED BY <1>1, <1>2, <1>3, OneRenewal

LEMMA RenewStepsSound ==
  ASSUME Sound, NEW t \in Tabs, RenewCheck(t) \/ RenewCommit(t) \/ LoseRenewal(t)
  PROVE  Sound'
<1>1. RenewalSound(renew[t]) /\ ServerSound /\ Len(tokens) \in Nat
  BY SoundParts DEF RenewSound
<1>2. UNCHANGED <<browser, ask, commands>>
  BY DEF RenewCheck, RenewCommit, LoseRenewal
<1>3. ServerSound' /\ TableGrows
  <2>1. CASE UNCHANGED server
    BY <2>1, ServerStays
  <2>2. CASE RenewCommit(t)
    <3>1. TableGrows /\ Families'
      BY <2>2, RenewTable, RenewCommitFacts, TableUnchanged DEF Sound
    <3>. QED BY <1>1, <2>2, <3>1 DEF RenewCommit, ServerSound, TableGrows
  <2>. QED BY <2>1, <2>2 DEF RenewCheck, LoseRenewal
<1>4. BrowserSound' /\ AskSound'
  BY <1>2, <1>3, BrowserStays, AsksStay
<1>5. CountsSound'
  BY <1>2, SoundParts, LoseRenewalFacts DEF CountsSound, RenewCheck, RenewCommit
<1>6. CASE RenewCheck(t)
  <2>1. RenewalSound(renew[t])'
    BY <1>1, <1>3, <1>6, RenewCheckFacts, ServerStays DEF RenewalSound, None
  <2>. QED BY <1>3, <1>4, <1>5, <1>6, <2>1, RenewCheckFacts, RenewalStays, Assemble
<1>7. CASE RenewCommit(t)
  <2>1. RenewalSound(renew[t])'
    <3>1. renew[t].pair \in Nat /\ renew[t].pair # None
      BY <1>1, <1>7 DEF RenewalSound, RenewCommit, Sound, Shape, Renewal
    <3>2. Len(tokens') \in Nat /\ Len(tokens) <= Len(tokens')
      BY <1>3 DEF TableGrows
    <3>3. renew'[t].answer <= Len(tokens')
      BY <1>1, <1>7, <3>2, RenewCommitFacts, RenewTable DEF None
    <3>. QED BY <1>1, <1>7, <3>1, <3>2, <3>3, RenewCommitFacts DEF RenewalSound
  <2>. QED BY <1>3, <1>4, <1>5, <1>7, <2>1, RenewCommitFacts, RenewalStays, Assemble
<1>8. CASE LoseRenewal(t)
  <2>1. RenewalSound(renew[t])'
    <3>1. tokens' = tokens
      BY <1>8, LoseRenewalFacts DEF server
    <3>. QED BY <1>1, <1>8, <3>1, LoseRenewalFacts DEF RenewalSound, None
  <2>. QED BY <1>3, <1>4, <1>5, <1>8, <2>1, LoseRenewalFacts, RenewalStays, Assemble
<1>. QED BY <1>6, <1>7, <1>8

-----------------------------------------------------------------------------
(* What the client does with an answer                                      *)

(* A request that changes otherwise, and the requests of one tab.           *)
LEMMA AsksOfTab ==
  ASSUME Sound, NEW t \in Tabs, TableGrows,
         ask' \in [Tabs -> [Slots -> Request]], \A u \in Tabs : u # t => ask'[u] = ask[u],
         \A s \in Slots : RequestSound(t, s, ask[t][s])'
  PROVE  AskSound'
<1>1. AskSound /\ Len(tokens) \in Nat /\ Len(tokens') \in Nat /\ Len(tokens) <= Len(tokens')
  BY SoundParts DEF TableGrows
<1>2. ASSUME NEW u \in Tabs, NEW r \in Slots PROVE RequestSound(u, r, ask[u][r])'
  <2>1. CASE u = t
    BY <2>1
  <2>2. CASE u # t
    <3>1. ask'[u][r] = ask[u][r] /\ ask[u][r] \in Request
      BY <1>1, <1>2, <2>2 DEF AskSound
    <3>2. RequestSound(u, r, ask[u][r])
      BY <1>1 DEF AskSound
    <3>. QED BY <1>1, <3>1, <3>2 DEF RequestSound, Request
  <2>. QED BY <2>1, <2>2
<1>. QED BY <1>2 DEF AskSound

LEMMA DeniedFacts ==
  ASSUME Sound, NEW t \in Tabs, NEW s \in Slots, Denied(t, s)
  PROVE  /\ UNCHANGED <<server, browser, commands, failures>>
         /\ ask' \in [Tabs -> [Slots -> Request]] /\ Only(t, s)
         /\ Same(ask'[t][s], ask[t][s]) /\ ask'[t][s].pair = ask[t][s].pair
         /\ ask[t][s].pc = "answered" /\ ask[t][s].answer = "denied"
         /\ renew' \in [Tabs -> Renewal] /\ OnlyRenew(t)
         /\ \/ /\ ask'[t][s].pc = "answered" /\ ask'[t][s].answer = "error" /\ renew' = renew
            \/ /\ ask'[t][s].pc = "waiting" /\ ask'[t][s].answer = "denied"
               /\ \/ renew' = renew /\ renew[t] # NoRenewal
                  \/ /\ renew[t] = NoRenewal /\ Stored(t) # None
                     /\ renew'[t].pc = "sent" /\ renew'[t].pair = Stored(t)
                     /\ renew'[t].answer = None
<1>. DEFINE a == ask[t][s]
            b == [a EXCEPT !.answer = "error"]
            c == [a EXCEPT !.pc = "waiting"]
            r == [renew[t] EXCEPT !.pc = "sent", !.pair = Stored(t)]
<1>1. Shape /\ a \in Request /\ a.pc = "answered" /\ a.answer = "denied" /\ renew[t] \in Renewal
      /\ renew \in [Tabs -> Renewal] /\ Stored(t) \in Nat
      /\ UNCHANGED <<server, commands, failures>>
  BY StoredType DEF Denied, Sound, Shape
<1>2. /\ b \in Request /\ Same(b, a) /\ b.pair = a.pair /\ b.pc = "answered" /\ b.answer = "error"
      /\ c \in Request /\ Same(c, a) /\ c.pair = a.pair /\ c.pc = "waiting" /\ c.answer = "denied"
  BY <1>1 DEF Request, Same
<1>3. /\ r \in Renewal /\ r.pc = "sent" /\ r.pair = Stored(t)
      /\ renew[t] = NoRenewal => r.answer = None
  <2>1. ASSUME NEW p \in Nat, NEW q \in Renewal
        PROVE  LET e == [q EXCEPT !.pc = "sent", !.pair = p]
               IN  e \in Renewal /\ e.pc = "sent" /\ e.pair = p /\ e.answer = q.answer
    BY DEF Renewal
  <2>2. NoRenewal.answer = None
    BY DEF NoRenewal
  <2>3. renew[t] \in Renewal /\ Stored(t) \in Nat
    BY <1>1
  <2>. HIDE DEF a, b, c
  <2>4. r \in Renewal /\ r.pc = "sent" /\ r.pair = Stored(t) /\ r.answer = renew[t].answer
    BY <2>1, <2>3
  <2>. QED BY <2>2, <2>4
<1>4. CASE renew[t] = NoRenewal /\ Stored(t) = None
  <2>1. ask' = [ask EXCEPT ![t][s] = b] /\ renew' = renew /\ UNCHANGED <<screen>> /\ clearTokens(t)
    BY <1>4 DEF Denied
  <2>2. UNCHANGED <<local, session>>
    BY <1>1, <1>4, <2>1 DEF clearTokens, Stored, Shape, None
  <2>. HIDE DEF b
  <2>3. ask' \in [Tabs -> [Slots -> Request]] /\ ask'[t][s] = b /\ Only(t, s)
    BY <1>1, <1>2, <2>1, OneAsk
  <2>. QED BY <1>1, <1>2, <2>1, <2>2, <2>3 DEF browser, OnlyRenew
<1>5. CASE ~(renew[t] = NoRenewal /\ Stored(t) = None)
  <2>1. ask' = [ask EXCEPT ![t][s] = c] /\ UNCHANGED browser
    BY <1>5 DEF Denied
  <2>2. renew' = IF renew[t] # NoRenewal THEN renew ELSE [renew EXCEPT ![t] = r]
    BY <1>5 DEF Denied
  <2>. HIDE DEF c, r
  <2>3. ask' \in [Tabs -> [Slots -> Request]] /\ ask'[t][s] = c /\ Only(t, s)
    BY <1>1, <1>2, <2>1, OneAsk
  <2>4. CASE renew[t] # NoRenewal
    BY <1>1, <1>2, <2>1, <2>2, <2>3, <2>4 DEF OnlyRenew
  <2>5. CASE renew[t] = NoRenewal
    <3>1. renew' \in [Tabs -> Renewal] /\ renew'[t] = r /\ OnlyRenew(t)
      BY <1>1, <1>3, <2>2, <2>5, OneRenewal
    <3>. QED BY <1>1, <1>2, <1>3, <1>5, <2>1, <2>3, <2>5, <3>1
  <2>. QED BY <2>4, <2>5
<1>. QED BY <1>4, <1>5

LEMMA DeniedSound ==
  ASSUME Sound, NEW t \in Tabs, NEW s \in Slots, Denied(t, s)
  PROVE  Sound'
<1>1. ServerSound' /\ TableGrows /\ tokens' = tokens
  BY DeniedFacts, ServerStays
<1>2. BrowserSound' /\ CountsSound'
  BY <1>1, DeniedFacts, BrowserStays, CountsStay
<1>3. RequestSound(t, s, ask[t][s])'
  <2>1. RequestSound(t, s, ask[t][s])
    BY SoundParts DEF AskSound
  <2>. QED BY <1>1, <2>1, DeniedFacts DEF RequestSound, Coherent, Same
<1>4. AskSound'
  BY <1>1, <1>3, DeniedFacts, AskStays
<1>5. RenewalSound(renew[t])'
  <2>1. RenewalSound(renew[t]) /\ Stored(t) <= Len(tokens)
    BY SoundParts, StoredType DEF RenewSound, Sound
  <2>2. CASE renew' = renew
    BY <1>1, <2>1, <2>2 DEF RenewalSound
  <2>3. CASE renew' # renew
    BY <1>1, <2>1, <2>3, DeniedFacts, SoundParts DEF RenewalSound, None
  <2>. QED BY <2>2, <2>3
<1>6. RenewSound'
  BY <1>1, <1>5, DeniedFacts, RenewalStays
<1>. QED BY <1>1, <1>2, <1>4, <1>6, Assemble

(* Every request that waited goes on.                                       *)
LEMMA RenewedFacts ==
  ASSUME Sound, NEW t \in Tabs, Renewed(t)
  PROVE  /\ UNCHANGED <<server, screen, commands, failures>>
         /\ ask' \in [Tabs -> [Slots -> Request]] /\ \A u \in Tabs : u # t => ask'[u] = ask[u]
         /\ \A s \in Slots :
              \/ ask[t][s].pc # "waiting" /\ ask'[t][s] = ask[t][s]
              \/ /\ ask[t][s].pc = "waiting" /\ ask'[t][s].what = ask[t][s].what
                 /\ ask'[t][s].typed = ask[t][s].typed /\ ask'[t][s].remember = ask[t][s].remember
                 /\ \/ /\ renew[t].answer = None /\ ask'[t][s].pair = ask[t][s].pair
                       /\ ask'[t][s].pc = "answered" /\ ask'[t][s].answer = "error"
                    \/ /\ renew[t].answer # None /\ ask'[t][s].pair = renew[t].answer
                       /\ ask'[t][s].pc = "sent" /\ ask'[t][s].answer = "none"
         /\ renew[t].pc = "answered" /\ renew'[t] = NoRenewal
         /\ renew' \in [Tabs -> Renewal] /\ OnlyRenew(t)
         /\ \/ renew[t].answer = None /\ clearTokens(t)
            \/ renew[t].answer # None /\ setTokens(t, renew[t].answer, rememberEnabled)
<1>. DEFINE p == renew[t].answer
            a(s) == IF ask[t][s].pc # "waiting" THEN ask[t][s]
                    ELSE IF p = None THEN [ask[t][s] EXCEPT !.pc = "answered", !.answer = "error"]
                    ELSE [ask[t][s] EXCEPT !.pc = "sent", !.pair = p, !.answer = "none",
                                           !.again = TRUE]
<1>1. /\ Shape /\ ask \in [Tabs -> [Slots -> Request]] /\ p \in Nat /\ renew[t].pc = "answered"
      /\ UNCHANGED <<server, screen, commands, failures>>
      /\ \/ renew[t].answer = None /\ clearTokens(t)
         \/ renew[t].answer # None /\ setTokens(t, renew[t].answer, rememberEnabled)
  BY DEF Renewed, Sound, Shape, Renewal
<1>2. ask' = [ask EXCEPT ![t] = [s \in Slots |-> a(s)]]
  BY <1>1 DEF Renewed, Woken
<1>3. ASSUME NEW s \in Slots
      PROVE  /\ a(s) \in Request
             /\ \/ ask[t][s].pc # "waiting" /\ a(s) = ask[t][s]
                \/ /\ ask[t][s].pc = "waiting" /\ a(s).what = ask[t][s].what
                   /\ a(s).typed = ask[t][s].typed /\ a(s).remember = ask[t][s].remember
                   /\ \/ /\ p = None /\ a(s).pair = ask[t][s].pair
                         /\ a(s).pc = "answered" /\ a(s).answer = "error"
                      \/ /\ p # None /\ a(s).pair = p
                         /\ a(s).pc = "sent" /\ a(s).answer = "none"
  <2>1. ask[t][s] \in Request
    BY <1>1
  <2>2. CASE ask[t][s].pc # "waiting"
    BY <2>1, <2>2
  <2>3. CASE ask[t][s].pc = "waiting" /\ p = None
    BY <2>1, <2>3 DEF Request
  <2>4. CASE ask[t][s].pc = "waiting" /\ p # None
    BY <1>1, <2>1, <2>4 DEF Request
  <2>. QED BY <2>2, <2>3, <2>4
<1>. HIDE DEF a
<1>4. [s \in Slots |-> a(s)] \in [Slots -> Request]
  BY <1>3
<1>5. /\ ask' \in [Tabs -> [Slots -> Request]] /\ \A u \in Tabs : u # t => ask'[u] = ask[u]
      /\ \A s \in Slots : ask'[t][s] = a(s)
  BY <1>1, <1>2, <1>4
<1>6. NoRenewal \in Renewal /\ renew' = [renew EXCEPT ![t] = NoRenewal]
  BY DEF NoRenewal, Renewal, None, Renewed
<1>7. renew'[t] = NoRenewal /\ renew' \in [Tabs -> Renewal] /\ OnlyRenew(t)
  BY <1>1, <1>6, OneRenewal
<1>8. \A s \in Slots :
        \/ ask[t][s].pc # "waiting" /\ ask'[t][s] = ask[t][s]
        \/ /\ ask[t][s].pc = "waiting" /\ ask'[t][s].what = ask[t][s].what
           /\ ask'[t][s].typed = ask[t][s].typed /\ ask'[t][s].remember = ask[t][s].remember
           /\ \/ /\ renew[t].answer = None /\ ask'[t][s].pair = ask[t][s].pair
                 /\ ask'[t][s].pc = "answered" /\ ask'[t][s].answer = "error"
              \/ /\ renew[t].answer # None /\ ask'[t][s].pair = renew[t].answer
                 /\ ask'[t][s].pc = "sent" /\ ask'[t][s].answer = "none"
  BY <1>3, <1>5
<1>. QED BY <1>1, <1>5, <1>7, <1>8

(* The storages after new tokens were written or the old ones removed.      *)
LEMMA StorageSound ==
  ASSUME Sound, NEW t \in Tabs, NEW pair \in Nat, NEW remember \in BOOLEAN, pair <= Len(tokens),
         tokens' = tokens, screen' \in [Tabs -> {"auth", "app"}],
         clearTokens(t) \/ setTokens(t, pair, remember)
  PROVE  BrowserSound'
<1>1. BrowserSound /\ Len(tokens) \in Nat
  BY SoundParts
<1>2. CASE clearTokens(t)
  BY <1>1, <1>2 DEF BrowserSound, clearTokens, None
<1>3. CASE setTokens(t, pair, remember)
  BY <1>1, <1>3 DEF BrowserSound, setTokens, None
<1>. QED BY <1>2, <1>3

LEMMA RenewedSound ==
  ASSUME Sound, NEW t \in Tabs, Renewed(t)
  PROVE  Sound'
<1>1. ServerSound' /\ TableGrows /\ tokens' = tokens
  BY RenewedFacts, ServerStays
<1>2. CountsSound'
  BY RenewedFacts, CountsStay
<1>3. renew[t].answer \in Nat /\ renew[t].answer <= Len(tokens) /\ rememberEnabled \in BOOLEAN
      /\ screen \in [Tabs -> {"auth", "app"}]
  BY DEF Sound, Shape, PairsExist, Renewal, rememberEnabled
<1>4. BrowserSound'
  <2>1. UNCHANGED screen /\ (clearTokens(t) \/ setTokens(t, renew[t].answer, rememberEnabled))
    BY RenewedFacts
  <2>2. screen' \in [Tabs -> {"auth", "app"}]
    BY <1>3, <2>1
  <2>. HIDE DEF clearTokens, setTokens
  <2>. QED BY <1>1, <1>3, <2>1, <2>2, StorageSound
<1>5. RenewalSound(renew[t])'
  BY <1>1, RenewedFacts, SoundParts DEF RenewalSound, NoRenewal, None
<1>6. RenewSound'
  BY <1>1, <1>5, RenewedFacts, RenewalStays
<1>7. ASSUME NEW s \in Slots PROVE RequestSound(t, s, ask[t][s])'
  <2>1. RequestSound(t, s, ask[t][s])
    BY SoundParts DEF AskSound
  <2>2. CASE ask'[t][s] = ask[t][s]
    BY <1>1, <2>1, <2>2 DEF RequestSound
  <2>3. CASE ask'[t][s] # ask[t][s]
    <3>1. /\ ask[t][s].pc = "waiting" /\ ask'[t][s].what = ask[t][s].what
          /\ \/ /\ ask'[t][s].pair = ask[t][s].pair
                /\ ask'[t][s].pc = "answered" /\ ask'[t][s].answer = "error"
             \/ /\ ask'[t][s].pair = renew[t].answer
                /\ ask'[t][s].pc = "sent" /\ ask'[t][s].answer = "none"
      BY <2>3, RenewedFacts
    <3>. QED BY <1>1, <1>3, <2>1, <3>1 DEF RequestSound, Coherent
  <2>. QED BY <2>2, <2>3
<1>8. AskSound'
  BY <1>1, <1>7, RenewedFacts, AsksOfTab
<1>. QED BY <1>1, <1>2, <1>4, <1>6, <1>8, Assemble

(* What becomes of an answer in the tab, by the request.                    *)
Cleared(t, s) == clearTokens(t) /\ ask'[t][s] = NoAsk

LEMMA TakeFacts ==
  ASSUME Sound, NEW t \in Tabs, NEW s \in Slots, Take(t, s)
  PROVE  LET a == ask[t][s]
             b == ask'[t][s]
         IN  /\ UNCHANGED <<server, renew, commands, failures>> /\ a.pc = "answered"
             /\ ask' \in [Tabs -> [Slots -> Request]] /\ Only(t, s)
             /\ screen' \in [Tabs -> {"auth", "app"}]
             /\ \/ a.what = "me" /\ b = NoAsk /\ UNCHANGED <<local, session>>
                \/ /\ a.what \in {"login", "register"} /\ a.answer = "ok"
                   /\ setTokens(t, a.pair, a.remember)
                   /\ b = NoAsk \/ (b.what = "me" /\ b.pc = "sent" /\ b.answer = "none" /\ b.pair = a.pair)
                \/ /\ a.what = "patch" /\ a.answer = "ok" /\ UNCHANGED <<local, session>>
                   /\ b.what = "login" /\ b.typed = a.typed + 1 /\ b.remember = (local # None)
                   /\ b.pc = "sent" /\ b.answer = "none" /\ b.pair = None
                \/ a.what = "logout" /\ Cleared(t, s)
                \/ a.what = "delete" /\ a.answer = "ok" /\ Cleared(t, s)
                \/ /\ a.what \in {"none", "poll", "code", "reset", "delete", "login", "register", "patch"}
                   /\ a.what \in {"delete", "login", "register", "patch"} => a.answer # "ok"
                   /\ b = NoAsk /\ UNCHANGED <<local, session>>
<1>. DEFINE a == ask[t][s]
            fresh == [Fields("me", None, FALSE) EXCEPT !.pair = a.pair]
            again == Fields("login", a.typed + 1, rememberEnabled)
<1>1. Shape /\ a \in Request /\ a.pc = "answered" /\ UNCHANGED <<server, renew, commands, failures>>
      /\ screen \in [Tabs -> {"auth", "app"}]
  BY DEF Take, Sound, Shape
<1>2. Finished(t, s) => ask' \in [Tabs -> [Slots -> Request]] /\ Only(t, s) /\ ask'[t][s] = NoAsk
  BY <1>1, FinishedAsk
<1>3. CASE a.what = "me"
  <2>1. Finished(t, s) /\ UNCHANGED <<local, session>>
        /\ screen' = [screen EXCEPT ![t] = IF a.answer = "ok" THEN "app" ELSE "auth"]
    BY <1>3 DEF Take
  <2>. QED BY <1>1, <1>2, <1>3, <2>1
<1>4. CASE a.what \in {"login", "register"} /\ a.answer = "ok"
  <2>1. /\ setTokens(t, a.pair, a.remember) /\ UNCHANGED screen
        /\ Finished(t, s) \/ ask' = [ask EXCEPT ![t][s] = fresh]
    BY <1>4 DEF Take
  <2>2. CASE Finished(t, s)
    BY <1>1, <1>2, <1>4, <2>1, <2>2
  <2>3. CASE ask' = [ask EXCEPT ![t][s] = fresh]
    <3>1. a.pair \in Nat /\ "me" \in Whats /\ None \in Nat
      BY <1>1 DEF Request, Whats, None
    <3>2. /\ fresh \in Request /\ fresh.what = "me" /\ fresh.pc = "sent"
          /\ fresh.answer = "none" /\ fresh.pair = a.pair
      <4>. HIDE DEF a
      <4>. QED BY <3>1 DEF Fields, NoAsk, Request, None
    <3>. HIDE DEF fresh
    <3>3. ask' \in [Tabs -> [Slots -> Request]] /\ ask'[t][s] = fresh /\ Only(t, s)
      BY <1>1, <2>3, <3>2, OneAsk
    <3>. QED BY <1>1, <1>4, <2>1, <3>2, <3>3
  <2>. QED BY <2>1, <2>2, <2>3
<1>5. CASE a.what = "patch" /\ a.answer = "ok"
  <2>1. ask' = [ask EXCEPT ![t][s] = again] /\ UNCHANGED browser
    BY <1>5 DEF Take
  <2>2. a.typed + 1 \in Nat /\ rememberEnabled \in BOOLEAN
    BY <1>1 DEF Request, rememberEnabled
  <2>3. /\ again \in Request /\ again.what = "login" /\ again.pc = "sent" /\ again.answer = "none"
        /\ again.typed = a.typed + 1 /\ again.remember = rememberEnabled /\ again.pair = None
    BY <2>2 DEF Fields, NoAsk, Request, None, Whats
  <2>. HIDE DEF again
  <2>4. ask' \in [Tabs -> [Slots -> Request]] /\ ask'[t][s] = again /\ Only(t, s)
    BY <1>1, <2>1, <2>3, OneAsk
  <2>. QED BY <1>1, <1>5, <2>1, <2>3, <2>4 DEF browser, rememberEnabled
<1>6. CASE a.what = "logout"
  <2>1. clearTokens(t) /\ Finished(t, s)
    BY <1>6 DEF Take, Leave
  <2>2. screen' = screen \/ screen' = [screen EXCEPT ![t] = "auth"]
    BY <1>6 DEF Take, Leave
  <2>. QED BY <1>1, <1>2, <1>6, <2>1, <2>2 DEF Cleared
<1>7. CASE a.what = "delete" /\ a.answer = "ok"
  <2>1. clearTokens(t) /\ Finished(t, s) /\ screen' = [screen EXCEPT ![t] = "auth"]
    BY <1>7 DEF Take, Leave
  <2>. QED BY <1>1, <1>2, <1>7, <2>1 DEF Cleared
<1>8. CASE /\ a.what \notin {"me", "logout"}
           /\ ~(a.what \in {"login", "register", "patch", "delete"} /\ a.answer = "ok")
  <2>1. Finished(t, s) /\ UNCHANGED browser
    BY <1>8 DEF Take
  <2>2. a.what \in Whats \ {"me", "logout"}
    BY <1>1, <1>8 DEF Request
  <2>3. a.what \in {"none", "poll", "code", "reset", "delete", "login", "register", "patch"}
    BY <2>2 DEF Whats
  <2>4. a.what \in {"delete", "login", "register", "patch"} => a.answer # "ok"
    BY <1>8
  <2>. QED BY <1>1, <1>2, <2>1, <2>3, <2>4 DEF browser
<1>. QED BY <1>3, <1>4, <1>5, <1>6, <1>7, <1>8

LEMMA TakeSound ==
  ASSUME Sound, NEW t \in Tabs, NEW s \in Slots, Take(t, s)
  PROVE  Sound'
<1>. DEFINE a == ask[t][s]
            b == ask'[t][s]
<1>1. ServerSound' /\ TableGrows /\ tokens' = tokens
  BY TakeFacts, ServerStays
<1>2. RenewSound' /\ CountsSound'
  BY <1>1, TakeFacts, RenewStays, CountsStay
<1>3. a \in Request /\ RequestSound(t, s, a) /\ BrowserSound /\ Len(tokens) \in Nat
  BY SoundParts DEF AskSound
<1>4. BrowserSound'
  <2>1. screen' \in [Tabs -> {"auth", "app"}] /\ a.pair \in Nat /\ a.remember \in BOOLEAN
        /\ a.pair <= Len(tokens)
    BY <1>3, TakeFacts DEF Request, RequestSound
  <2>2. UNCHANGED <<local, session>> \/ clearTokens(t) \/ setTokens(t, a.pair, a.remember)
    BY TakeFacts DEF Cleared
  <2>3. CASE UNCHANGED <<local, session>>
    BY <1>1, <1>3, <2>1, <2>3 DEF BrowserSound
  <2>. HIDE DEF a, clearTokens, setTokens
  <2>. QED BY <1>1, <2>1, <2>2, <2>3, StorageSound
<1>5. RequestSound(t, s, ask[t][s])'
  <2>1. b = NoAsk \/ (/\ b.what \in {"me", "login"} /\ b.pc = "sent" /\ b.answer = "none"
                      /\ b.pair = None \/ b.pair = a.pair
                      /\ a.what \in {"login", "register", "patch"})
    BY TakeFacts DEF Cleared
  <2>2. CASE b = NoAsk
    BY <1>1, <1>3, <2>2 DEF RequestSound, Coherent, NoAsk, None, Authorised
  <2>3. CASE b # NoAsk
    <3>1. s # "background"
      BY <1>3, <2>1, <2>3 DEF RequestSound
    <3>. QED BY <1>1, <1>3, <2>1, <2>3, <3>1, SentIsCoherent DEF RequestSound, None
  <2>. QED BY <2>2, <2>3
<1>6. AskSound'
  BY <1>1, <1>5, TakeFacts, AskStays
<1>. QED BY <1>1, <1>2, <1>4, <1>6, Assemble

-----------------------------------------------------------------------------
(* Time and failures                                                        *)

LEMMA LoseFacts ==
  ASSUME Sound, NEW t \in Tabs, NEW s \in Slots, Lose(t, s)
  PROVE  /\ UNCHANGED <<server, browser, renew, commands>>
         /\ failures' \in Nat /\ failures' # 0
         /\ ask' \in [Tabs -> [Slots -> Request]] /\ Only(t, s)
         /\ Same(ask'[t][s], ask[t][s]) /\ ask'[t][s].pair = ask[t][s].pair
         /\ ask[t][s].pc \in {"sent", "answered"}
         /\ ask'[t][s].pc = "answered" /\ ask'[t][s].answer = "error"
<1>1. Shape /\ Answered(t, s, "error") /\ ask[t][s].pc \in {"sent", "answered"}
      /\ UNCHANGED <<server, browser, renew, commands>> /\ failures' \in Nat /\ failures' # 0
  BY DEF Lose, Sound, Shape, Fail
<1>. QED BY <1>1, AnsweredAsk

LEMMA ReloadFacts ==
  ASSUME Sound, NEW t \in Tabs, Reload(t)
  PROVE  /\ UNCHANGED <<server, local, session, commands>>
         /\ failures' \in Nat /\ failures' # 0
         /\ ask' \in [Tabs -> [Slots -> Request]] /\ \A u \in Tabs : u # t => ask'[u] = ask[u]
         /\ \A s \in Slots : ask'[t][s] = NoAsk /\ ask[t][s].pc # "checked"
         /\ renew' \in [Tabs -> Renewal] /\ OnlyRenew(t) /\ renew'[t] = NoRenewal
         /\ screen' \in [Tabs -> {"auth", "app"}]
<1>1. Shape /\ UNCHANGED <<server, local, session, commands>> /\ failures' \in Nat /\ failures' # 0
      /\ \A s \in Slots : ask[t][s].pc # "checked"
  BY DEF Reload, Sound, Shape, Fail
<1>2. NoAsk \in Request /\ NoRenewal \in Renewal
  BY DEF NoAsk, Request, NoRenewal, Renewal, None, Whats
<1>3. /\ ask' \in [Tabs -> [Slots -> Request]] /\ \A u \in Tabs : u # t => ask'[u] = ask[u]
      /\ \A s \in Slots : ask'[t][s] = NoAsk
  BY <1>1, <1>2 DEF Reload, Shape
<1>4. renew' \in [Tabs -> Renewal] /\ OnlyRenew(t) /\ renew'[t] = NoRenewal
  BY <1>1, <1>2, OneRenewal DEF Reload
<1>5. screen' \in [Tabs -> {"auth", "app"}]
  BY <1>1 DEF Reload, Shape
<1>. QED BY <1>1, <1>3, <1>4, <1>5

LEMMA EnvironmentSound ==
  ASSUME Sound, Environment
  PROVE  Sound'
<1>1. CASE Minute \/ \E pair \in Pairs : Expire(pair)
  <2>1. /\ UNCHANGED <<active, password, tokens, codes, browser, ask, renew, commands, failures>>
    BY <1>1 DEF Minute, Expire, server
  <2>2. ServerSound' /\ TableGrows
    BY <2>1, SoundParts, TableUnchanged DEF ServerSound, Families, Sound
  <2>. QED BY <2>1, <2>2, BrowserStays, AsksStay, RenewStays, CountsStay, Assemble
<1>2. ASSUME NEW t \in Tabs, NEW s \in Slots, Lose(t, s) PROVE Sound'
  <2>1. ServerSound' /\ TableGrows /\ tokens' = tokens
    BY <1>2, LoseFacts, ServerStays
  <2>2. BrowserSound' /\ RenewSound' /\ CountsSound'
    BY <1>2, <2>1, LoseFacts, BrowserStays, RenewStays, SoundParts DEF CountsSound
  <2>3. ask[t][s].pair <= Len(tokens)
    BY DEF Sound, PairsExist
  <2>4. AskSound'
    BY <1>2, <2>1, <2>3, LoseFacts, AnswerSound DEF Same
  <2>. QED BY <2>1, <2>2, <2>4, Assemble
<1>3. ASSUME NEW t \in Tabs, Reload(t) PROVE Sound'
  <2>1. ServerSound' /\ TableGrows /\ tokens' = tokens
    BY <1>3, ReloadFacts, ServerStays
  <2>2. BrowserSound' /\ CountsSound'
    BY <1>3, <2>1, ReloadFacts, SoundParts DEF CountsSound, BrowserSound
  <2>3. RenewalSound(renew[t])'
    BY <1>3, <2>1, ReloadFacts, SoundParts DEF RenewalSound, NoRenewal, None
  <2>4. RenewSound'
    BY <1>3, <2>1, <2>3, ReloadFacts, RenewalStays
  <2>5. ASSUME NEW s \in Slots PROVE RequestSound(t, s, ask[t][s])'
    BY <1>3, <2>1, <2>5, ReloadFacts, SoundParts
       DEF RequestSound, Coherent, NoAsk, None, Authorised
  <2>6. AskSound'
    BY <1>3, <2>1, <2>5, ReloadFacts, AsksOfTab
  <2>. QED BY <2>1, <2>2, <2>4, <2>6, Assemble
<1>. QED BY <1>1, <1>2, <1>3, RenewStepsSound DEF Environment

LEMMA NextSound ==
  ASSUME Sound, [Next]_vars
  PROVE  Sound'
<1>1. CASE UNCHANGED vars
  <2>1. ServerSound' /\ TableGrows
    BY <1>1, ServerStays DEF vars
  <2>. QED BY <1>1, <2>1, BrowserStays, AsksStay, RenewStays, CountsStay, Assemble DEF vars
<1>2. ASSUME NEW t \in Tabs, Client(t) PROVE Sound'
  BY <1>2, AskingSound, RenewedSound, DeniedSound, TakeSound DEF Client
<1>3. ASSUME NEW t \in Tabs, Handler(t) PROVE Sound'
  BY <1>3, RenewStepsSound, CheckSound, EntrySound, CommitSound DEF Handler
<1>4. CASE Environment
  BY <1>4, EnvironmentSound
<1>. QED BY <1>1, <1>2, <1>3, <1>4 DEF Next

-----------------------------------------------------------------------------
(* Requests that do not cross                                               *)

Form(t) == ask[t]["form"]

(* Whoever ends, begins or renews a session is alone.                       *)
LEMMA FormIsAlone ==
  ASSUME ~Crossing, NEW t \in Tabs, Changing(t)
  PROVE  \A u \in Tabs : renew[u] = NoRenewal /\ (u # t => ~Changing(u))
  BY DEF Crossing

LEMMA RenewalIsAlone ==
  ASSUME ~Crossing, NEW t \in Tabs, renew[t] # NoRenewal
  PROVE  \A u \in Tabs : ~Changing(u) /\ (u # t => renew[u] = NoRenewal)
  BY DEF Crossing

(* A request that passed the check of its handler is a form.                *)
LEMMA CheckedForm ==
  ASSUME Sound, NEW t \in Tabs, NEW s \in Slots, ask[t][s].pc = "checked"
  PROVE  s = "form" /\ Changing(t)
<1>1. ask[t][s].what \notin {"poll", "me"} /\ ask[t][s] # NoAsk
  BY SoundParts DEF AskSound, RequestSound, Coherent, NoAsk
<1>2. s # "background"
  <2>1. SUFFICES ASSUME s = "background" PROVE FALSE
    OBVIOUS
  <2>2. ask[t]["background"].what = "none"
    BY <1>1, <2>1, SoundParts DEF AskSound, RequestSound
  <2>. QED BY <2>1, <2>2, SoundParts DEF AskSound, RequestSound, Coherent, Slots
<1>. QED BY <1>1, <1>2 DEF Slots, Changing

-----------------------------------------------------------------------------
(* The sessions of an account, as long as no requests cross                 *)

(* A token that lives was given for the password in force, and is the only  *)
(* one of its session.                                                      *)
UnderPassword == \A n \in 1..Len(tokens) : tokens[n].live => tokens[n].under = password

OneLives ==
  \A m, n \in 1..Len(tokens) :
    tokens[m].live /\ tokens[n].live /\ tokens[m].family = tokens[n].family => m = n

NewestCode == Valid \subseteq {Len(codes)}

(* What a handler read is still so when it writes.                          *)
RenewalHolds == \A t \in Tabs : renew[t].pc = "checked" => tokens[renew[t].pair].live

FormHolds(a) ==
  /\ a.what = "register" /\ a.pc \in {"sent", "checked"} => a.typed = password
  /\ a.what \in {"login", "patch"} /\ a.pc = "checked" => a.typed = password
  /\ a.what = "code" /\ a.pc = "checked" => a.seen = Valid

FormsHold == \A t \in Tabs : FormHolds(Form(t))

TableSteady == UnderPassword /\ OneLives /\ NewestCode

Steady == TableSteady /\ RenewalHolds /\ FormsHold

LEMMA ServerSteady ==
  ASSUME Steady, UNCHANGED <<tokens, password, codes>>
  PROVE  TableSteady' /\ Valid' = Valid
  BY DEF Steady, TableSteady, UnderPassword, OneLives, NewestCode, Valid

LEMMA RenewalHoldsStill ==
  ASSUME RenewalHolds, UNCHANGED <<tokens, renew>>
  PROVE  RenewalHolds'
  BY DEF RenewalHolds

(* Only one form changes, or none.                                          *)
LEMMA FormsHoldStill ==
  ASSUME FormsHold, password' = password, Valid' = Valid,
         NEW t \in Tabs, \A u \in Tabs : u # t => ask'[u]["form"] = ask[u]["form"],
         FormHolds(Form(t))'
  PROVE  FormsHold'
<1>1. ASSUME NEW u \in Tabs PROVE FormHolds(Form(u))'
  <2>1. CASE u = t
    BY <2>1
  <2>2. CASE u # t
    BY <1>1, <2>2 DEF FormsHold, FormHolds, Form
  <2>. QED BY <2>1, <2>2
<1>. QED BY <1>1 DEF FormsHold

(* A form that can not be wrong.                                            *)
LEMMA FormHoldsLater ==
  ASSUME NEW t \in Tabs, ask'[t]["form"].pc # "checked",
         ask'[t]["form"].pc = "sent" => ask'[t]["form"].what # "register"
  PROVE  FormHolds(Form(t))'
  BY DEF FormHolds, Form

(* A form whose handler has written is alone, and has been answered.        *)
LEMMA AnsweredAlone ==
  ASSUME Sound, ~Crossing, NEW t \in Tabs, Changing(t), Only(t, "form"),
         ask'[t]["form"].pc = "answered"
  PROVE  FormsHold'
<1>1. ASSUME NEW u \in Tabs PROVE FormHolds(Form(u))'
  <2>1. CASE u = t
    BY <2>1, FormHoldsLater
  <2>2. CASE u # t
    <3>1. ~Changing(u) /\ ask'[u]["form"] = ask[u]["form"]
      BY <1>1, <2>2, FormIsAlone DEF Only, Slots
    <3>2. ask'[u]["form"].what = "me" \/ ask'[u]["form"].pc \in {"idle", "waiting"}
      BY <3>1 DEF Changing
    <3>. QED BY <3>2 DEF FormHolds, Form
  <2>. QED BY <2>1, <2>2
<1>. QED BY <1>1 DEF FormsHold

LEMMA NothingToRenew ==
  ASSUME Sound, ~Crossing, NEW t \in Tabs, Changing(t), renew' = renew
  PROVE  RenewalHolds'
<1>1. \A u \in Tabs : renew'[u].pc = "idle"
  BY FormIsAlone DEF NoRenewal
<1>. QED BY <1>1 DEF RenewalHolds

LEMMA AskingSteady ==
  ASSUME Sound, Steady, NEW t \in Tabs, Open(t) \/ Poll(t) \/ Submit(t)
  PROVE  Steady'
<1>1. Shape /\ FormsHold /\ RenewalHolds /\ UNCHANGED <<server, renew>>
  BY DEF Open, Poll, Submit, Sound, Steady
<1>2. TableSteady' /\ Valid' = Valid /\ password' = password /\ RenewalHolds'
  BY <1>1, ServerSteady, RenewalHoldsStill DEF server
<1>3. CASE Open(t)
  <2>1. Ask(t, "form", Fields("me", None, FALSE)) /\ "me" \in Whats /\ None \in Nat
    BY <1>3 DEF Open, Whats, None
  <2>2. Only(t, "form") /\ ask'[t]["form"].what = "me" /\ ask'[t]["form"].pc = "sent"
    BY <1>1, <2>1, NewAsk DEF Slots
  <2>. QED BY <1>1, <1>2, <2>2, FormHoldsLater, FormsHoldStill DEF Steady, Only, Slots
<1>4. CASE Poll(t)
  <2>1. Ask(t, "background", Fields("poll", None, FALSE)) /\ "poll" \in Whats /\ None \in Nat
    BY <1>4 DEF Poll, Whats, None
  <2>2. Only(t, "background")
    BY <1>1, <2>1, NewAsk DEF Slots
  <2>3. \A u \in Tabs : ask'[u]["form"] = ask[u]["form"]
    BY <2>2 DEF Only, Slots
  <2>4. FormsHold'
    BY <1>1, <1>2, <2>3 DEF FormsHold, FormHolds, Form
  <2>. QED BY <1>2, <2>4 DEF Steady
<1>5. CASE Submit(t)
  <2>1. PICK f \in Forms(t) : Ask(t, "form", f)
    BY <1>5 DEF Submit
  <2>2. PICK what \in Whats, typed \in Nat, remember \in BOOLEAN :
          /\ f = Fields(what, typed, remember)
          /\ what \in {"login", "register", "patch", "delete"} => typed = password
    BY <1>1, FormFields
  <2>3. /\ Only(t, "form") /\ ask'[t]["form"].what = what /\ ask'[t]["form"].typed = typed
        /\ ask'[t]["form"].pc = "sent"
    BY <1>1, <2>1, <2>2, NewAsk DEF Slots
  <2>4. FormHolds(Form(t))'
    BY <1>2, <2>2, <2>3 DEF FormHolds, Form
  <2>. QED BY <1>1, <1>2, <2>3, <2>4, FormsHoldStill DEF Steady, Only, Slots
<1>. QED BY <1>3, <1>4, <1>5

LEMMA CheckSteady ==
  ASSUME Sound, Steady, NEW t \in Tabs, NEW s \in Slots, Check(t, s)
  PROVE  Steady'
<1>1. FormsHold /\ RenewalHolds /\ UNCHANGED <<server, renew>> /\ Only(t, s)
  BY CheckFacts DEF Steady
<1>2. TableSteady' /\ Valid' = Valid /\ password' = password /\ RenewalHolds'
  BY <1>1, ServerSteady, RenewalHoldsStill DEF server, Steady
<1>3. FormHolds(Form(t))'
  <2>1. CASE s = "background"
    <3>1. ask'[t]["form"] = ask[t]["form"]
      BY <1>1, <2>1 DEF Only, Slots
    <3>. QED BY <1>1, <1>2, <3>1 DEF FormsHold, FormHolds, Form
  <2>2. CASE s = "form" /\ ask'[t][s].pc = "answered"
    BY <2>2, FormHoldsLater
  <2>3. CASE s = "form" /\ ask'[t][s].pc # "answered"
    <3>1. /\ ask'[t][s].pc = "checked" /\ ask'[t][s].seen = Valid /\ Passes(ask[t][s])
          /\ ask'[t][s].what = ask[t][s].what /\ ask'[t][s].typed = ask[t][s].typed
          /\ ask[t][s].pc = "sent"
      BY <2>3, CheckFacts
    <3>2. ask[t][s].what = "register" => ask[t][s].typed = password
      BY <1>1, <2>3, <3>1 DEF FormsHold, FormHolds, Form
    <3>3. ask[t][s].what \in {"login", "patch"} => ask[t][s].typed = password
      BY <3>1 DEF Passes
    <3>. QED BY <1>2, <2>3, <3>1, <3>2, <3>3 DEF FormHolds, Form
  <2>. QED BY <2>1, <2>2, <2>3, CheckFacts DEF Slots
<1>. QED BY <1>1, <1>2, <1>3, FormsHoldStill DEF Steady, Only, Slots

LEMMA EntrySteady ==
  ASSUME Sound, Steady, ~Crossing, NEW t \in Tabs, NEW s \in Slots, CommitEntry(t, s)
  PROVE  Steady'
<1>1. /\ s = "form" /\ Changing(t) /\ ask[t]["form"].pc = "checked" /\ Only(t, "form")
      /\ ask'[t]["form"].pc = "answered" /\ UNCHANGED <<password, codes, renew>>
      /\ ask[t]["form"].what \in {"register", "login"}
  BY EntryFacts, CheckedForm
<1>2. FormsHold' /\ RenewalHolds'
  BY <1>1, AnsweredAlone, NothingToRenew
<1>3. CASE ask'[t]["form"].answer = "error"
  <2>1. tokens' = tokens
    BY <1>1, <1>3, EntryFacts
  <2>. QED BY <1>1, <1>2, <2>1, ServerSteady DEF Steady
<1>4. CASE ask'[t]["form"].answer # "error"
  <2>. DEFINE m == Len(tokens) + 1
  <2>1. /\ m \in Nat /\ Len(tokens') = m /\ tokens'[m].family = m
        /\ tokens'[m].under = ask[t]["form"].typed
        /\ \A n \in 1..Len(tokens) : tokens'[n] = tokens[n]
    BY <1>1, <1>4, EntryTable, SoundParts
  <2>2. ask[t]["form"].typed = password
    BY <1>1 DEF Steady, FormsHold, FormHolds, Form
  <2>3. \A n \in 1..Len(tokens') : n = m \/ (n \in 1..Len(tokens) /\ tokens'[n] = tokens[n])
    BY <2>1, SoundParts
  <2>4. UnderPassword'
    BY <1>1, <2>1, <2>2, <2>3 DEF UnderPassword, Steady, TableSteady
  <2>5. \A n \in 1..Len(tokens) : tokens[n].family # m
    <3>1. ASSUME NEW n \in 1..Len(tokens) PROVE tokens[n].family # m
      <4>1. tokens[n].family <= n /\ n <= Len(tokens) /\ n \in Nat /\ Len(tokens) \in Nat
        BY <3>1, SoundParts DEF Sound, Families
      <4>2. tokens[n] \in Token
        BY <3>1, ElementOfSeq DEF Sound, Shape
      <4>. QED BY <4>1, <4>2 DEF Token
    <3>. QED BY <3>1
  <2>6. OneLives'
    BY <2>1, <2>3, <2>5 DEF OneLives, Steady, TableSteady
  <2>7. NewestCode'
    BY <1>1 DEF NewestCode, Valid, Steady, TableSteady
  <2>. QED BY <1>2, <2>4, <2>6, <2>7 DEF Steady, TableSteady
<1>. QED BY <1>3, <1>4

LEMMA CommitSteady ==
  ASSUME Sound, Steady, ~Crossing, NEW t \in Tabs, NEW s \in Slots,
         CommitExit(t, s) \/ CommitCode(t, s) \/ CommitPassword(t, s) \/ CommitDelete(t, s)
  PROVE  Steady'
<1>1. /\ s = "form" /\ Changing(t) /\ ask[t]["form"].pc = "checked" /\ Only(t, "form")
      /\ ask'[t]["form"].pc = "answered" /\ renew' = renew
  BY CommitFacts, CheckedForm
<1>2. FormsHold' /\ RenewalHolds'
  BY <1>1, AnsweredAlone, NothingToRenew
<1>3. Len(codes) \in Nat /\ Len(tokens) \in Nat /\ Shape
  BY DEF Sound, Shape
<1>4. CASE UNCHANGED <<tokens, password, codes>>
  BY <1>2, <1>4, ServerSteady DEF Steady
<1>5. CASE CommitExit(t, s)
  <2>1. TableGrows /\ Len(tokens') = Len(tokens) /\ UNCHANGED <<password, codes>>
    BY <1>5, ExitTable DEF CommitExit
  <2>2. UnderPassword' /\ OneLives'
    BY <2>1 DEF TableGrows, UnderPassword, OneLives, Steady, TableSteady
  <2>3. NewestCode'
    BY <2>1 DEF NewestCode, Valid, Steady, TableSteady
  <2>. QED BY <1>2, <2>2, <2>3 DEF Steady, TableSteady
<1>6. CASE CommitCode(t, s) /\ ~UNCHANGED <<tokens, password, codes>>
  <2>1. UNCHANGED <<tokens, password>> /\ ask[t]["form"].what = "code"
    BY <1>1, <1>6 DEF CommitCode
  <2>2. ask[t]["form"].seen = Valid
    BY <1>1, <2>1 DEF Steady, FormsHold, FormHolds, Form
  <2>3. codes' = Append(WithoutCodes(Valid), "valid")
    BY <1>1, <1>6, <2>2 DEF CommitCode
  <2>4. /\ WithoutCodes(Valid) \in Seq(Code) /\ Len(WithoutCodes(Valid)) = Len(codes)
        /\ \A n \in 1..Len(codes) :
             WithoutCodes(Valid)[n] = "valid" <=> codes[n] = "valid" /\ n \notin Valid
    BY <1>3, WithoutCodesType
  <2>5. Len(codes') = Len(codes) + 1
        /\ \A n \in 1..Len(codes) : codes'[n] = WithoutCodes(Valid)[n]
    BY <1>3, <2>3, <2>4
  <2>6. ASSUME NEW n \in 1..Len(codes'), codes'[n] = "valid" PROVE n = Len(codes')
    <3>1. n \in 1..Len(codes) \/ n = Len(codes')
      BY <1>3, <2>5, <2>6
    <3>2. n \notin 1..Len(codes)
      BY <2>4, <2>5, <2>6 DEF Valid
    <3>. QED BY <3>1, <3>2
  <2>7. NewestCode'
    BY <2>6 DEF NewestCode, Valid
  <2>8. UnderPassword' /\ OneLives'
    BY <2>1 DEF UnderPassword, OneLives, Steady, TableSteady
  <2>. QED BY <1>2, <2>7, <2>8 DEF Steady, TableSteady
<1>7. CASE (CommitPassword(t, s) \/ CommitDelete(t, s)) /\ ~UNCHANGED <<tokens, password, codes>>
  <2>1. tokens' = RevokeAll(tokens) /\ (codes' = codes \/ \E S : codes' = WithoutCodes(S))
    <3>1. CASE CommitDelete(t, s)
      BY <3>1 DEF CommitDelete
    <3>2. CASE CommitPassword(t, s)
      <4>1. active
        BY <1>7, <3>2 DEF CommitPassword
      <4>. QED BY <3>2, <4>1 DEF CommitPassword
    <3>. QED BY <1>7, <3>1, <3>2
  <2>2. Len(tokens') = Len(tokens) /\ \A n \in 1..Len(tokens) : ~tokens'[n].live
    BY <2>1, RevokeTable
  <2>3. UnderPassword' /\ OneLives'
    BY <2>2 DEF UnderPassword, OneLives
  <2>4. NewestCode'
    <3>1. CASE codes' = codes
      BY <3>1 DEF NewestCode, Valid, Steady, TableSteady
    <3>2. ASSUME NEW S, codes' = WithoutCodes(S) PROVE NewestCode'
      <4>1. Len(codes') = Len(codes) /\ \A n \in 1..Len(codes) : codes'[n] = "valid" => codes[n] = "valid"
        BY <1>3, <3>2, WithoutCodesType
      <4>. QED BY <4>1 DEF NewestCode, Valid, Steady, TableSteady
    <3>. QED BY <2>1, <3>1, <3>2
  <2>. QED BY <1>2, <2>3, <2>4 DEF Steady, TableSteady
<1>. QED BY <1>4, <1>5, <1>6, <1>7

LEMMA RenewSteady ==
  ASSUME Sound, Steady, ~Crossing, NEW t \in Tabs,
         RenewCheck(t) \/ RenewCommit(t) \/ LoseRenewal(t)
  PROVE  Steady'
<1>1. UNCHANGED <<password, codes, ask>> /\ OnlyRenew(t)
  BY RenewCheckFacts, RenewCommitFacts, LoseRenewalFacts DEF server
<1>2. FormsHold' /\ NewestCode'
  BY <1>1 DEF Steady, TableSteady, FormsHold, FormHolds, Form, NewestCode, Valid
<1>3. CASE RenewCheck(t)
  <2>1. tokens' = tokens /\ TableSteady'
    BY <1>3, RenewCheckFacts, ServerSteady DEF server
  <2>2. RenewalHolds'
    BY <1>1, <1>3, <2>1, RenewCheckFacts DEF RenewalHolds, Steady, OnlyRenew
  <2>. QED BY <1>2, <2>1, <2>2 DEF Steady
<1>4. CASE LoseRenewal(t)
  <2>1. tokens' = tokens /\ TableSteady'
    BY <1>4, LoseRenewalFacts, ServerSteady DEF server
  <2>2. RenewalHolds'
    BY <1>1, <1>4, <2>1, LoseRenewalFacts DEF RenewalHolds, Steady, OnlyRenew
  <2>. QED BY <1>2, <2>1, <2>2 DEF Steady
<1>5. CASE RenewCommit(t)
  <2>1. renew[t].pc = "checked" /\ renew'[t].pc = "answered" /\ renew[t] # NoRenewal
    BY <1>5, RenewCommitFacts DEF NoRenewal
  <2>2. \A u \in Tabs : renew'[u].pc # "checked"
    BY <1>1, <2>1, RenewalIsAlone DEF OnlyRenew, NoRenewal
  <2>3. RenewalHolds'
    BY <2>2 DEF RenewalHolds
  <2>4. CASE tokens' = tokens
    BY <1>1, <1>2, <2>3, <2>4, ServerSteady DEF Steady
  <2>5. CASE tokens' # tokens
    <3>. DEFINE m == Len(tokens) + 1
                p == renew[t].pair
    <3>1. active
      BY <1>5, <2>5, RenewCommitFacts
    <3>2. /\ Len(tokens') = m /\ p \in 1..Len(tokens) /\ ~tokens'[p].live
          /\ tokens'[m].family = tokens[p].family /\ tokens'[m].under = tokens[p].under
          /\ TableGrows /\ Len(tokens) \in Nat
      BY <1>5, <3>1, RenewTable, SoundParts
    <3>3. tokens[p].live
      BY <2>1 DEF Steady, RenewalHolds
    <3>4. \A n \in 1..Len(tokens') : n = m \/ n \in 1..Len(tokens)
      BY <3>2
    <3>5. UnderPassword'
      BY <1>1, <3>2, <3>3, <3>4 DEF UnderPassword, TableGrows, Steady, TableSteady
    <3>6. \A n \in 1..Len(tokens) : tokens'[n].live => tokens'[n].family # tokens[p].family
      <4>1. ASSUME NEW n \in 1..Len(tokens), tokens'[n].live, tokens'[n].family = tokens[p].family
            PROVE  FALSE
        <5>1. tokens[n].live /\ tokens[n].family = tokens[p].family
          BY <3>2, <4>1 DEF TableGrows
        <5>2. n = p
          BY <3>2, <3>3, <5>1 DEF OneLives, Steady, TableSteady
        <5>. QED BY <3>2, <4>1, <5>2
      <4>. QED BY <4>1
    <3>7. ASSUME NEW i \in 1..Len(tokens'), NEW j \in 1..Len(tokens'),
                 tokens'[i].live, tokens'[j].live, tokens'[i].family = tokens'[j].family
          PROVE  i = j
      <4>1. CASE i \in 1..Len(tokens) /\ j \in 1..Len(tokens)
        BY <3>2, <3>7, <4>1 DEF OneLives, TableGrows, Steady, TableSteady
      <4>2. CASE i = m \/ j = m
        BY <3>2, <3>4, <3>6, <3>7, <4>2
      <4>. QED BY <3>4, <4>1, <4>2
    <3>8. OneLives'
      BY <3>7 DEF OneLives
    <3>. QED BY <1>2, <2>3, <3>5, <3>8 DEF Steady, TableSteady
  <2>. QED BY <2>4, <2>5
<1>. QED BY <1>3, <1>4, <1>5

LEMMA ClientSteady ==
  ASSUME Sound, Steady, NEW t \in Tabs,
         Renewed(t) \/ \E s \in Slots : Denied(t, s) \/ Take(t, s)
  PROVE  Steady'
<1>1. FormsHold /\ RenewalHolds
  BY DEF Steady
<1>2. CASE Renewed(t)
  <2>1. UNCHANGED server /\ (\A u \in Tabs : u # t => ask'[u]["form"] = ask[u]["form"])
        /\ OnlyRenew(t) /\ renew'[t].pc = "idle"
    BY <1>2, RenewedFacts DEF NoRenewal
  <2>2. tokens' = tokens /\ TableSteady' /\ Valid' = Valid /\ password' = password
    BY <2>1, ServerSteady DEF server
  <2>3. RenewalHolds'
    BY <1>1, <2>1, <2>2 DEF RenewalHolds, OnlyRenew
  <2>4. FormHolds(Form(t))'
    <3>1. CASE ask'[t]["form"] = ask[t]["form"]
      BY <1>1, <2>2, <3>1 DEF FormsHold, FormHolds, Form
    <3>2. CASE ask'[t]["form"] # ask[t]["form"]
      <4>1. /\ ask[t]["form"].pc = "waiting" /\ ask'[t]["form"].what = ask[t]["form"].what
            /\ ask'[t]["form"].pc \in {"answered", "sent"}
        BY <1>2, <3>2, RenewedFacts DEF Slots
      <4>2. ask[t]["form"].what # "register"
        BY <4>1, SoundParts DEF AskSound, RequestSound, Coherent, Authorised, Slots
      <4>. QED BY <4>1, <4>2, FormHoldsLater
    <3>. QED BY <3>1, <3>2
  <2>. QED BY <1>1, <2>1, <2>2, <2>3, <2>4, FormsHoldStill DEF Steady
<1>3. ASSUME NEW s \in Slots, Denied(t, s) \/ Take(t, s) PROVE Steady'
  <2>1. /\ UNCHANGED server /\ Only(t, s) /\ OnlyRenew(t)
        /\ renew'[t] = renew[t] \/ renew'[t].pc = "sent"
        /\ ask'[t][s].pc # "checked" /\ (ask'[t][s].pc = "sent" => ask'[t][s].what # "register")
    <3>1. CASE Denied(t, s)
      BY <3>1, DeniedFacts
    <3>2. CASE Take(t, s)
      BY <3>2, TakeFacts DEF OnlyRenew, NoAsk, Cleared
    <3>. QED BY <1>3, <3>1, <3>2
  <2>2. tokens' = tokens /\ TableSteady' /\ Valid' = Valid /\ password' = password
    BY <2>1, ServerSteady DEF server
  <2>3. RenewalHolds'
    BY <1>1, <2>1, <2>2 DEF RenewalHolds, OnlyRenew
  <2>4. FormHolds(Form(t))'
    <3>1. CASE s = "form"
      BY <2>1, <3>1, FormHoldsLater
    <3>2. CASE s # "form"
      <4>1. ask'[t]["form"] = ask[t]["form"]
        BY <2>1, <3>2 DEF Only, Slots
      <4>. QED BY <1>1, <2>2, <4>1 DEF FormsHold, FormHolds, Form
    <3>. QED BY <3>1, <3>2
  <2>. QED BY <1>1, <2>1, <2>2, <2>3, <2>4, FormsHoldStill DEF Steady, Only, Slots
<1>. QED BY <1>2, <1>3

LEMMA EnvironmentSteady ==
  ASSUME Sound, Steady, ~Crossing, Environment
  PROVE  Steady'
<1>1. FormsHold /\ RenewalHolds
  BY DEF Steady
<1>2. CASE Minute \/ \E pair \in Pairs : Expire(pair)
  <2>1. UNCHANGED <<password, tokens, codes, ask, renew>>
    BY <1>2 DEF Minute, Expire, server
  <2>2. TableSteady' /\ Valid' = Valid /\ RenewalHolds'
    BY <1>1, <2>1, ServerSteady, RenewalHoldsStill
  <2>. QED BY <1>1, <2>1, <2>2 DEF Steady, FormsHold, FormHolds, Form
<1>3. ASSUME NEW t \in Tabs, NEW s \in Slots, Lose(t, s) \/ Reload(t) PROVE Steady'
  <2>1. /\ UNCHANGED server /\ (\A u \in Tabs : u # t => ask'[u]["form"] = ask[u]["form"])
        /\ \A u \in Tabs : renew'[u] = renew[u] \/ renew'[u].pc = "idle"
        /\ ask'[t]["form"] = ask[t]["form"] \/ ask'[t]["form"].pc \in {"answered", "idle"}
    <3>1. CASE Lose(t, s)
      BY <3>1, LoseFacts DEF Only, Slots
    <3>2. CASE Reload(t)
      <4>1. renew'[t].pc = "idle" /\ \A u \in Tabs : u # t => renew'[u] = renew[u]
        BY <3>2, ReloadFacts DEF NoRenewal, OnlyRenew
      <4>. QED BY <3>2, <4>1, ReloadFacts DEF NoAsk, Slots
    <3>. QED BY <1>3, <3>1, <3>2
  <2>2. tokens' = tokens /\ TableSteady' /\ Valid' = Valid /\ password' = password
    BY <2>1, ServerSteady DEF server
  <2>3. RenewalHolds'
    BY <1>1, <2>1, <2>2 DEF RenewalHolds
  <2>4. FormHolds(Form(t))'
    BY <1>1, <2>1, <2>2, FormHoldsLater DEF FormsHold, FormHolds, Form
  <2>. QED BY <1>1, <2>1, <2>2, <2>3, <2>4, FormsHoldStill DEF Steady
<1>4. "form" \in Slots
  BY DEF Slots
<1>. QED BY <1>2, <1>3, <1>4, RenewSteady DEF Environment

LEMMA NextSteady ==
  ASSUME Sound, Steady, ~Crossing, [Next]_vars
  PROVE  Steady'
<1>1. CASE UNCHANGED vars
  <2>1. UNCHANGED <<password, tokens, codes, ask, renew>>
    BY <1>1 DEF vars, server
  <2>2. TableSteady' /\ Valid' = Valid /\ RenewalHolds'
    BY <2>1, ServerSteady, RenewalHoldsStill DEF Steady
  <2>. QED BY <2>1, <2>2 DEF Steady, FormsHold, FormHolds, Form
<1>2. ASSUME NEW t \in Tabs, Client(t) PROVE Steady'
  BY <1>2, AskingSteady, ClientSteady DEF Client
<1>3. ASSUME NEW t \in Tabs, Handler(t) PROVE Steady'
  BY <1>3, RenewSteady, CheckSteady, EntrySteady, CommitSteady DEF Handler
<1>. QED BY <1>1, <1>2, <1>3, EnvironmentSteady DEF Next

LEMMA InitSteady ==
  ASSUME Init
  PROVE  Steady /\ ~Crossing
<1>1. tokens = <<[live |-> TRUE, family |-> 1, under |-> 1]>> /\ Len(tokens) = 1
      /\ tokens[1] = [live |-> TRUE, family |-> 1, under |-> 1] /\ password = 1
  BY DEF Init
<1>2. codes = <<>> /\ Len(codes) = 0
  BY DEF Init
<1>3. TableSteady
  BY <1>1, <1>2 DEF TableSteady, UnderPassword, OneLives, NewestCode, Valid
<1>4. \A t \in Tabs : renew[t] = NoRenewal /\ Form(t).what = "none" /\ Form(t).pc = "idle"
                      /\ renew[t].pc = "idle"
  BY DEF Init, Form, NoAsk, Slots, NoRenewal
<1>. QED BY <1>3, <1>4
     DEF Steady, RenewalHolds, FormsHold, FormHolds, Crossing, Changing, Form

-----------------------------------------------------------------------------
(* Theorems                                                                 *)

(* Crossing is remembered.                                                  *)
Remembered == Crossing => crossed

CalmInv == Sound /\ Remembered /\ (~crossed => Steady)

LEMMA CalmStep ==
  ASSUME CalmInv, [Next]_vars
  PROVE  CalmInv'
<1>1. Remembered' /\ (~crossed' => ~crossed)
  BY DEF CalmInv, Remembered, Next, vars, server, browser, Crossing, Changing
<1>. QED BY <1>1, NextSound, NextSteady DEF CalmInv, Remembered

(* Every request, token and storage is what it claims to be, two requests   *)
(* that cross are remembered, and until then the sessions are steady.       *)
THEOREM AlwaysCalm == Spec => []CalmInv
<1>1. Init => CalmInv
  BY InitSound, InitSteady DEF CalmInv, Remembered
<1>2. CalmInv /\ [Next]_vars => CalmInv'
  BY CalmStep
<1>. QED BY <1>1, <1>2, PTL DEF Spec

(* _revoke_refresh_tokens: a token that works was given for the password in *)
(* force.                                                                   *)
THEOREM OldTokensAlwaysStop == Spec => []OldTokensStopWorking
<1>1. CalmInv => OldTokensStopWorking
  <2>1. CalmInv => DOMAIN tokens = 1..Len(tokens)
    BY DEF CalmInv, Sound, Shape
  <2>. QED BY <2>1 DEF CalmInv, Steady, TableSteady, UnderPassword, OldTokensStopWorking
<1>. QED BY <1>1, AlwaysCalm, PTL

(* request_password_reset: only the newest code can be valid.               *)
THEOREM OnlyNewestCodeEverWorks == Spec => []OnlyNewestCodeWorks
<1>1. CalmInv => OnlyNewestCodeWorks
  BY DEF CalmInv, Steady, TableSteady, NewestCode, OnlyNewestCodeWorks
<1>. QED BY <1>1, AlwaysCalm, PTL

(* How the table of tokens changes.                                         *)
LEMMA TableSteps ==
  ASSUME Sound, [Next]_vars
  PROVE  \/ TableGrows /\ Len(tokens') = Len(tokens)
         \/ \E t \in Tabs, s \in Slots : CommitEntry(t, s) /\ ask'[t][s].answer # "error"
         \/ \E t \in Tabs : RenewCommit(t) /\ active
<1>1. Shape /\ (tokens' = tokens => TableGrows /\ Len(tokens') = Len(tokens))
  BY TableUnchanged DEF Sound
<1>2. ASSUME NEW t \in Tabs, Client(t) PROVE tokens' = tokens
  BY <1>2 DEF Client, Open, Poll, Submit, Renewed, Denied, Take, server
<1>3. ASSUME NEW t \in Tabs, NEW s \in Slots, Check(t, s) PROVE tokens' = tokens
  BY <1>3 DEF Check, server
<1>4. ASSUME NEW t \in Tabs, RenewCheck(t) \/ (RenewCommit(t) /\ ~active) PROVE tokens' = tokens
  BY <1>4, RenewCommitFacts DEF RenewCheck, server
<1>5. ASSUME NEW t \in Tabs, NEW s \in Slots,
             CommitEntry(t, s), ~(ask'[t][s].answer # "error")
      PROVE  tokens' = tokens
  BY <1>5, EntryFacts
<1>6. CASE Environment
  <2>1. tokens' = tokens
    BY <1>6 DEF Environment, Minute, Expire, LoseRenewal, Reload, Lose, server
  <2>. QED BY <1>1, <2>1
<1>7. CASE UNCHANGED vars
  BY <1>1, <1>7 DEF vars, server
<1>8. ASSUME NEW t \in Tabs, Handler(t)
      PROVE  \/ TableGrows /\ Len(tokens') = Len(tokens)
             \/ \E s \in Slots : CommitEntry(t, s) /\ ask'[t][s].answer # "error"
             \/ RenewCommit(t) /\ active
  BY <1>1, <1>3, <1>4, <1>5, <1>8, CommitServer DEF Handler
<1>. QED BY <1>1, <1>2, <1>6, <1>7, <1>8 DEF Next

(* Whether a session has ended.                                             *)
Ended(f) == \A n \in 1..Len(tokens) : tokens[n].family = f => ~tokens[n].live

LEMMA EndedIsEnded ==
  ASSUME Shape, NEW f
  PROVE  Family(f) = {} <=> Ended(f)
  BY DEF Family, Ended, Shape

LEMMA EndedStays ==
  ASSUME CalmInv, [Next]_vars, ~crossed', NEW n \in 1..Len(tokens), Ended(tokens[n].family)
  PROVE  n \in 1..Len(tokens') /\ tokens'[n].family = tokens[n].family
         /\ Ended(tokens[n].family)'
<1>. DEFINE f == tokens[n].family
<1>1. Sound /\ Steady /\ Sound' /\ Len(tokens) \in Nat
  BY CalmStep, SoundParts DEF CalmInv, Next, vars
<1>2. f <= n /\ f \in Nat /\ n \in Nat
  <2>1. tokens[n] \in Token
    BY <1>1, ElementOfSeq DEF Sound, Shape
  <2>. QED BY <1>1, <2>1 DEF Sound, Families, Token
<1>3. CASE TableGrows /\ Len(tokens') = Len(tokens)
  BY <1>1, <1>3 DEF TableGrows, Ended
<1>4. ASSUME NEW t \in Tabs, NEW s \in Slots, CommitEntry(t, s), ask'[t][s].answer # "error"
      PROVE  n \in 1..Len(tokens') /\ tokens'[n].family = f /\ Ended(tokens[n].family)'
  <2>. DEFINE m == Len(tokens) + 1
  <2>1. /\ Len(tokens') = m /\ tokens'[m].family = m
        /\ \A k \in 1..Len(tokens) : tokens'[k] = tokens[k]
    BY <1>1, <1>4, EntryTable
  <2>2. \A k \in 1..Len(tokens') : k = m \/ k \in 1..Len(tokens)
    BY <1>1, <2>1
  <2>3. m # f
    BY <1>1, <1>2
  <2>. QED BY <1>1, <2>1, <2>2, <2>3 DEF Ended
<1>5. ASSUME NEW t \in Tabs, RenewCommit(t), active
      PROVE  n \in 1..Len(tokens') /\ tokens'[n].family = f /\ Ended(tokens[n].family)'
  <2>. DEFINE m == Len(tokens) + 1
              p == renew[t].pair
  <2>1. /\ Len(tokens') = m /\ tokens'[m].family = tokens[p].family /\ p \in 1..Len(tokens)
        /\ TableGrows
    BY <1>1, <1>5, RenewTable
  <2>2. tokens[p].live
    BY <1>1, <1>5 DEF RenewCommit, Steady, RenewalHolds
  <2>3. tokens[p].family # f
    BY <2>1, <2>2 DEF Ended
  <2>4. \A k \in 1..Len(tokens') : k = m \/ k \in 1..Len(tokens)
    BY <1>1, <2>1
  <2>. QED BY <1>1, <2>1, <2>3, <2>4 DEF Ended, TableGrows
<1>. QED BY <1>1, <1>3, <1>4, <1>5, TableSteps

(* A session that was ended is not renewed.                                 *)
THEOREM EndedIsAlwaysFinal == Spec => EndedIsFinal
<1>1. CalmInv /\ [Next]_vars =>
        [\A n \in DOMAIN tokens :
           LET f == tokens[n].family
           IN  Family(f) = {} /\ ~crossed' => Family(f)' = {}]_vars
  <2>1. SUFFICES ASSUME CalmInv, [Next]_vars, NEW n \in DOMAIN tokens,
                        Family(tokens[n].family) = {}, ~crossed'
                 PROVE  {k \in DOMAIN tokens' : tokens'[k].family = tokens'[n].family
                                                /\ tokens'[k].live} = {}
    BY DEF Family
  <2>2. Shape /\ Shape' /\ DOMAIN tokens = 1..Len(tokens) /\ DOMAIN tokens' = 1..Len(tokens')
    BY <2>1, CalmStep DEF CalmInv, Sound, Shape
  <2>3. PICK f : f = tokens[n].family
    OBVIOUS
  <2>4. Ended(tokens[n].family)
    BY <2>1, <2>2, EndedIsEnded
  <2>5. tokens'[n].family = f /\ \A k \in 1..Len(tokens') : tokens'[k].family = tokens'[n].family => ~tokens'[k].live
    BY <2>1, <2>2, <2>3, <2>4, EndedStays DEF Ended
  <2>. QED BY <2>2, <2>5
<1>. QED BY <1>1, AlwaysCalm, PTL DEF Spec, EndedIsFinal

-----------------------------------------------------------------------------
(* Which tokens a tab holds, as long as no requests cross and none is lost  *)

(* p is the only token of its session that can live.                        *)
Newest(table, p) ==
  p # None =>
    \A n \in 1..Len(table) : table[n].live /\ table[n].family = table[p].family => n = p

Over(table, p) == \A n \in 1..Len(table) : table[n].family = table[p].family => ~table[n].live

Apart(table, p, q) == p # None /\ q # None => table[p].family # table[q].family

Replacing(ren, p) == \E t \in Tabs : ren[t].answer # None /\ ren[t].pair = p

Held(table, ren, p) == Newest(table, p) \/ Replacing(ren, p)

(* What is stored is the newest of its session, or is being replaced by it. *)
Places(table, loc, ses, ren) ==
  /\ Held(table, ren, loc)
  /\ \A t \in Tabs : Held(table, ren, ses[t]) /\ Apart(table, loc, ses[t])
  /\ \A t, u \in Tabs : t # u => Apart(table, ses[t], ses[u])

Renewing(table, r, stored) ==
  r # NoRenewal =>
    /\ r.pair = stored
    /\ r.answer # None =>
         Newest(table, r.answer) /\ table[r.answer].family = table[r.pair].family

FormTracked(table, loc, ses, a) ==
  /\ a.what = "logout" /\ a.pc \in {"sent", "checked"} => Newest(table, a.pair)
  /\ a.what = "logout" /\ a.answer = "ok" /\ a.pair # None => Over(table, a.pair)
  /\ a.what \in {"login", "register"} /\ a.answer = "ok" =>
       /\ a.pair # None /\ Newest(table, a.pair)
       /\ Apart(table, a.pair, loc) /\ \A u \in Tabs : Apart(table, a.pair, ses[u])

Tracked ==
  /\ Places(tokens, local, session, renew)
  /\ \A t \in Tabs : Renewing(tokens, renew[t], Stored(t))
  /\ \A t \in Tabs : FormTracked(tokens, local, session, Form(t))

(* A table in which tokens are revoked only.                                *)
Shrinks(table, new) ==
  /\ Len(new) = Len(table)
  /\ \A n \in 1..Len(table) : new[n].family = table[n].family /\ (new[n].live => table[n].live)

LEMMA ShrinksTo ==
  ASSUME TableGrows, Len(tokens') = Len(tokens)
  PROVE  Shrinks(tokens, tokens')
  BY DEF TableGrows, Shrinks

LEMMA NewestStays ==
  ASSUME NEW table, NEW new, Shrinks(table, new), Len(table) \in Nat,
         NEW p \in Nat, p <= Len(table)
  PROVE  /\ Newest(table, p) => Newest(new, p)
         /\ p # None /\ Over(table, p) => Over(new, p)
         /\ \A q \in Nat : q <= Len(table) /\ Apart(table, p, q) => Apart(new, p, q)
<1>1. \A q \in Nat : q # None /\ q <= Len(table) => q \in 1..Len(table)
  BY DEF None
<1>2. Newest(table, p) => Newest(new, p)
  BY <1>1 DEF Newest, Shrinks
<1>3. p # None /\ Over(table, p) => Over(new, p)
  BY <1>1 DEF Over, Shrinks
<1>4. \A q \in Nat : q <= Len(table) /\ Apart(table, p, q) => Apart(new, p, q)
  BY <1>1 DEF Apart, Shrinks
<1>. QED BY <1>2, <1>3, <1>4

LEMMA PairTypes ==
  ASSUME Sound
  PROVE  /\ Len(tokens) \in Nat
         /\ local \in Nat /\ local <= Len(tokens)
         /\ \A t \in Tabs : /\ session[t] \in Nat /\ session[t] <= Len(tokens)
                            /\ Form(t).pair \in Nat /\ Form(t).pair <= Len(tokens)
                            /\ Form(t) \in Request
                            /\ renew[t].pair \in Nat /\ renew[t].pair <= Len(tokens)
                            /\ renew[t].answer \in Nat /\ renew[t].answer <= Len(tokens)
                            /\ renew[t].pc = "idle" <=> renew[t] = NoRenewal
  BY SoundParts DEF BrowserSound, AskSound, RequestSound, RenewSound, RenewalSound, Request,
                    Renewal, Form, Slots, NoRenewal

LEMMA PlacesStay ==
  ASSUME Sound, NEW new, Shrinks(tokens, new), Places(tokens, local, session, renew)
  PROVE  Places(new, local, session, renew)
<1>1. Held(new, renew, local)
  BY PairTypes, NewestStays DEF Places, Held
<1>2. ASSUME NEW t \in Tabs PROVE Held(new, renew, session[t]) /\ Apart(new, local, session[t])
  BY <1>2, PairTypes, NewestStays DEF Places, Held
<1>3. ASSUME NEW t \in Tabs, NEW u \in Tabs, t # u PROVE Apart(new, session[t], session[u])
  BY <1>3, PairTypes, NewestStays DEF Places
<1>. QED BY <1>1, <1>2, <1>3 DEF Places

LEMMA RenewingStays ==
  ASSUME Sound, NEW t \in Tabs, NEW new, Shrinks(tokens, new), NEW stored,
         Renewing(tokens, renew[t], stored)
  PROVE  Renewing(new, renew[t], stored)
<1>1. SUFFICES ASSUME renew[t] # NoRenewal, renew[t].answer # None
               PROVE  /\ Newest(new, renew[t].answer)
                      /\ new[renew[t].answer].family = new[renew[t].pair].family
  BY DEF Renewing
<1>2. renew[t].pair \in 1..Len(tokens) /\ renew[t].answer \in 1..Len(tokens)
  BY <1>1, PairTypes, SoundParts DEF RenewSound, RenewalSound, None
<1>3. Newest(new, renew[t].answer)
  BY <1>1, <1>2, PairTypes, NewestStays DEF Renewing
<1>. QED BY <1>1, <1>2, <1>3 DEF Renewing, Shrinks

LEMMA FormTrackedStays ==
  ASSUME Sound, NEW t \in Tabs, NEW new, Shrinks(tokens, new),
         FormTracked(tokens, local, session, Form(t))
  PROVE  FormTracked(new, local, session, Form(t))
<1>. DEFINE p == Form(t).pair
<1>1. /\ p \in Nat /\ p <= Len(tokens) /\ Len(tokens) \in Nat
      /\ local \in Nat /\ local <= Len(tokens)
      /\ \A u \in Tabs : session[u] \in Nat /\ session[u] <= Len(tokens)
  BY PairTypes
<1>. HIDE DEF p
<1>2. /\ Newest(tokens, p) => Newest(new, p)
      /\ p # None /\ Over(tokens, p) => Over(new, p)
      /\ Apart(tokens, p, local) => Apart(new, p, local)
      /\ \A u \in Tabs : Apart(tokens, p, session[u]) => Apart(new, p, session[u])
  BY <1>1, NewestStays
<1>. QED BY <1>2 DEF FormTracked, p

(* Who changes nothing is tracked.                                          *)
LEMMA StillTracked ==
  ASSUME Sound, NEW t \in Tabs, ~Changing(t), NEW table, NEW loc, NEW ses
  PROVE  FormTracked(table, loc, ses, Form(t))
<1>1. Coherent(Form(t))
  BY SoundParts DEF AskSound, RequestSound, Form, Slots
<1>2. Form(t).what = "me" \/ Form(t).pc \in {"idle", "waiting"}
  BY DEF Changing, Form
<1>3. Form(t) # NoAsk => Form(t).pc # "idle"
  BY <1>1 DEF Coherent
<1>4. NoAsk.what = "none"
  BY DEF NoAsk
<1>. QED BY <1>1, <1>2, <1>3, <1>4 DEF FormTracked, Coherent

(* Nothing is stored or renewed, and only one form changes.                 *)
LEMMA OneFormTracked ==
  ASSUME Sound, Tracked, TableGrows, Len(tokens') = Len(tokens),
         UNCHANGED <<local, session, renew>>,
         NEW t \in Tabs, \A u \in Tabs : u # t => ask'[u]["form"] = ask[u]["form"],
         FormTracked(tokens', local, session, ask'[t]["form"])
  PROVE  Tracked'
<1>1. Shrinks(tokens, tokens')
  BY ShrinksTo
<1>2. Places(tokens', local', session', renew')
  BY <1>1, PlacesStay DEF Tracked
<1>3. ASSUME NEW u \in Tabs PROVE Renewing(tokens', renew'[u], Stored(u)')
  <2>1. Stored(u)' = Stored(u)
    BY DEF Stored
  <2>. QED BY <1>1, <1>3, <2>1, RenewingStays DEF Tracked
<1>4. ASSUME NEW u \in Tabs PROVE FormTracked(tokens', local', session', ask'[u]["form"])
  <2>1. CASE u = t
    BY <2>1
  <2>2. CASE u # t
    BY <1>1, <1>4, <2>2, FormTrackedStays DEF Tracked, Form
  <2>. QED BY <2>1, <2>2
<1>. QED BY <1>2, <1>3, <1>4 DEF Tracked, Form

(* A form that is not a logout, a login or a registration that was answered. *)
LEMMA OtherForms ==
  ASSUME NEW table, NEW loc, NEW ses, NEW a,
         a.what = "logout" => a.pc \notin {"sent", "checked"} /\ a.answer # "ok",
         a.what \in {"login", "register"} => a.answer # "ok"
  PROVE  FormTracked(table, loc, ses, a)
  BY DEF FormTracked

LEMMA AskingTracked ==
  ASSUME Sound, Tracked, ~Crossing', NEW t \in Tabs, Open(t) \/ Poll(t) \/ Submit(t)
  PROVE  Tracked'
<1>1. Shape /\ UNCHANGED <<tokens, local, session, renew>> /\ TableGrows /\ Len(tokens') = Len(tokens)
  BY TableUnchanged DEF Open, Poll, Submit, Sound, server, browser
<1>2. CASE Open(t)
  <2>1. Ask(t, "form", Fields("me", None, FALSE)) /\ "me" \in Whats /\ None \in Nat
    BY <1>2 DEF Open, Whats, None
  <2>2. Only(t, "form") /\ ask'[t]["form"].what = "me"
    BY <1>1, <2>1, NewAsk DEF Slots
  <2>3. FormTracked(tokens', local, session, ask'[t]["form"])
    BY <2>2, OtherForms
  <2>. QED BY <1>1, <2>2, <2>3, OneFormTracked DEF Only, Slots
<1>3. CASE Poll(t)
  <2>1. Ask(t, "background", Fields("poll", None, FALSE)) /\ "poll" \in Whats /\ None \in Nat
    BY <1>3 DEF Poll, Whats, None
  <2>2. Only(t, "background")
    BY <1>1, <2>1, NewAsk DEF Slots
  <2>3. \A u \in Tabs : ask'[u]["form"] = ask[u]["form"]
    BY <2>2 DEF Only, Slots
  <2>4. FormTracked(tokens', local, session, ask'[t]["form"])
    BY <1>1, <2>3 DEF Tracked, Form
  <2>. QED BY <1>1, <2>3, <2>4, OneFormTracked
<1>4. CASE Submit(t)
  <2>1. PICK f \in Forms(t) : Ask(t, "form", f)
    BY <1>4 DEF Submit
  <2>2. PICK what \in Whats \ {"none", "poll", "me"}, typed \in Nat, remember \in BOOLEAN :
          f = Fields(what, typed, remember)
    BY <1>1, FormFields
  <2>3. /\ Only(t, "form") /\ ask'[t]["form"].what = what /\ ask'[t]["form"].pair = Stored(t)
        /\ ask'[t]["form"].pc = "sent" /\ ask'[t]["form"].answer = "none"
    BY <1>1, <2>1, <2>2, NewAsk DEF Slots
  <2>4. \A u \in Tabs : renew[u] = NoRenewal
    BY <1>1, <2>2, <2>3 DEF Crossing, Changing
  <2>5. Newest(tokens, Stored(t))
    <3>1. Held(tokens, renew, Stored(t))
      BY DEF Stored, Tracked, Places
    <3>2. ~Replacing(renew, Stored(t))
      BY <2>4 DEF Replacing, NoRenewal
    <3>. QED BY <3>1, <3>2 DEF Held
  <2>6. FormTracked(tokens', local, session, ask'[t]["form"])
    BY <1>1, <2>3, <2>5 DEF FormTracked
  <2>. QED BY <1>1, <2>3, <2>6, OneFormTracked DEF Only, Slots
<1>. QED BY <1>2, <1>3, <1>4

LEMMA CheckTracked ==
  ASSUME Sound, Tracked, NEW t \in Tabs, NEW s \in Slots, Check(t, s)
  PROVE  Tracked'
<1>1. UNCHANGED <<tokens, local, session, renew>> /\ TableGrows /\ Len(tokens') = Len(tokens)
      /\ Only(t, s)
  BY CheckFacts, TableUnchanged DEF Sound, server, browser
<1>2. FormTracked(tokens', local, session, ask'[t]["form"])
  <2>1. CASE s = "background"
    <3>1. ask'[t]["form"] = ask[t]["form"]
      BY <1>1, <2>1 DEF Only, Slots
    <3>. QED BY <1>1, <3>1 DEF Tracked, Form
  <2>2. CASE s = "form"
    <3>1. /\ ask'[t]["form"].what = ask[t]["form"].what /\ ask'[t]["form"].pair = ask[t]["form"].pair
          /\ ask[t]["form"].pc = "sent"
          /\ ask'[t]["form"].answer = "ok" => ask[t]["form"].what \in {"poll", "me"}
      BY <2>2, CheckFacts
    <3>. QED BY <1>1, <3>1 DEF FormTracked, Tracked, Form
  <2>. QED BY <2>1, <2>2 DEF Slots
<1>. QED BY <1>1, <1>2, OneFormTracked DEF Only, Slots

LEMMA EntryTracked ==
  ASSUME Sound, Tracked, ~Crossing, NEW t \in Tabs, NEW s \in Slots, CommitEntry(t, s)
  PROVE  Tracked'
<1>. DEFINE a == ask'[t]["form"]
            m == Len(tokens) + 1
<1>1. /\ s = "form" /\ Changing(t) /\ Only(t, "form") /\ UNCHANGED <<local, session, renew>>
      /\ a.what \in {"register", "login"} /\ a.pc = "answered"
  BY EntryFacts, CheckedForm DEF Same, browser
<1>2. CASE a.answer = "error"
  <2>1. tokens' = tokens
    BY <1>1, <1>2, EntryFacts
  <2>2. FormTracked(tokens', local, session, a)
    BY <1>1, <1>2, OtherForms
  <2>. QED BY <1>1, <2>1, <2>2, TableUnchanged, OneFormTracked DEF Only, Slots, Sound
<1>3. CASE a.answer # "error"
  <2>1. /\ Len(tokens') = m /\ tokens'[m].family = m
        /\ \A n \in 1..Len(tokens) : tokens'[n] = tokens[n]
        /\ a.pair = m /\ m \in Nat /\ m # None
    BY <1>1, <1>3, EntryTable, EntryFacts, SoundParts DEF None
  <2>2. \A u \in Tabs : renew[u] = NoRenewal /\ (u # t => ~Changing(u))
    BY <1>1, FormIsAlone
  <2>3. \A n \in 1..Len(tokens) : tokens[n].family # m
    <3>1. ASSUME NEW n \in 1..Len(tokens) PROVE tokens[n].family # m
      <4>1. tokens[n].family <= n /\ n <= Len(tokens) /\ n \in Nat /\ Len(tokens) \in Nat
        BY <3>1, SoundParts DEF Sound, Families
      <4>2. tokens[n] \in Token
        BY <3>1, ElementOfSeq DEF Sound, Shape
      <4>. QED BY <4>1, <4>2 DEF Token
    <3>. QED BY <3>1
  <2>4. \A n \in 1..Len(tokens') : n = m \/ n \in 1..Len(tokens)
    BY <2>1, SoundParts
  <2>5. ASSUME NEW p \in Nat, p <= Len(tokens), Newest(tokens, p) PROVE Newest(tokens', p)
    <3>1. p = None \/ p \in 1..Len(tokens)
      BY <2>5, SoundParts DEF None
    <3>. QED BY <2>1, <2>3, <2>4, <2>5, <3>1 DEF Newest
  <2>6. ASSUME NEW p \in Nat, p <= Len(tokens)
        PROVE  /\ Apart(tokens', m, p)
               /\ \A q \in Nat : q <= Len(tokens) /\ Apart(tokens, p, q) => Apart(tokens', p, q)
    <3>1. \A q \in Nat : q # None /\ q <= Len(tokens) => q \in 1..Len(tokens)
      BY SoundParts DEF None
    <3>. QED BY <2>1, <2>3, <2>6, <3>1 DEF Apart
  <2>7. \A p : Held(tokens, renew, p) => Newest(tokens, p)
    BY <2>2 DEF Held, Replacing, NoRenewal
  <2>8. Places(tokens', local', session', renew')
    <3>1. Held(tokens', renew', local')
      BY <1>1, <2>5, <2>7, PairTypes DEF Tracked, Places, Held
    <3>2. ASSUME NEW u \in Tabs PROVE Held(tokens', renew', session'[u]) /\ Apart(tokens', local', session'[u])
      BY <1>1, <2>5, <2>6, <2>7, <3>2, PairTypes DEF Tracked, Places, Held
    <3>3. ASSUME NEW u \in Tabs, NEW v \in Tabs, u # v PROVE Apart(tokens', session'[u], session'[v])
      BY <1>1, <2>6, <3>3, PairTypes DEF Tracked, Places
    <3>. QED BY <3>1, <3>2, <3>3 DEF Places
  <2>9. ASSUME NEW u \in Tabs PROVE Renewing(tokens', renew'[u], Stored(u)')
    BY <1>1, <2>2, <2>9 DEF Renewing
  <2>10. Newest(tokens', m)
    BY <2>1, <2>3, <2>4 DEF Newest
  <2>11. FormTracked(tokens', local', session', a)
    BY <1>1, <2>1, <2>6, <2>10, PairTypes DEF FormTracked
  <2>12. ASSUME NEW u \in Tabs PROVE FormTracked(tokens', local', session', ask'[u]["form"])
    <3>1. CASE u = t
      BY <2>11, <3>1
    <3>2. CASE u # t
      <4>1. ask'[u]["form"] = Form(u) /\ ~Changing(u)
        BY <1>1, <2>2, <2>12, <3>2 DEF Only, Form, Slots
      <4>. QED BY <2>12, <4>1, StillTracked
    <3>. QED BY <3>1, <3>2
  <2>. QED BY <2>8, <2>9, <2>12 DEF Tracked, Form
<1>. QED BY <1>2, <1>3

LEMMA CommitTracked ==
  ASSUME Sound, Tracked, ~Crossing, NEW t \in Tabs, NEW s \in Slots,
         CommitExit(t, s) \/ CommitCode(t, s) \/ CommitPassword(t, s) \/ CommitDelete(t, s)
  PROVE  Tracked'
<1>. DEFINE a == ask'[t]["form"]
<1>1. /\ s = "form" /\ Only(t, "form") /\ UNCHANGED <<local, session, renew>>
      /\ a.what = ask[t]["form"].what /\ a.pair = ask[t]["form"].pair /\ a.pc = "answered"
      /\ ask[t]["form"].pc = "checked" /\ TableGrows /\ Len(tokens') = Len(tokens)
  BY CommitFacts, CheckedForm, CommitServer DEF Same, browser
<1>2. FormTracked(tokens', local, session, a)
  <2>1. CASE CommitExit(t, s)
    <3>1. a.what = "logout" /\ Newest(tokens, a.pair)
      BY <1>1, <2>1 DEF CommitExit, Tracked, FormTracked, Form
    <3>2. a.pair # None => ~tokens'[a.pair].live
          /\ \A n \in 1..Len(tokens) : tokens'[n].live => tokens[n].live
      BY <1>1, <2>1, ExitTable DEF TableGrows
    <3>3. a.pair # None => a.pair \in 1..Len(tokens)
      BY <1>1, PairTypes DEF None, Form
    <3>4. a.pair # None => Over(tokens', a.pair)
      BY <1>1, <3>1, <3>2, <3>3 DEF Newest, Over, TableGrows
    <3>. QED BY <1>1, <3>1, <3>4 DEF FormTracked
  <2>2. CASE ~CommitExit(t, s)
    <3>1. a.what \notin {"logout", "login", "register"}
      BY <1>1, <2>2 DEF CommitCode, CommitPassword, CommitDelete
    <3>. QED BY <3>1, OtherForms
  <2>. QED BY <2>1, <2>2
<1>. QED BY <1>1, <1>2, OneFormTracked DEF Only, Slots

(* Nothing is stored and no token changes; a refresh begins or goes on.     *)
LEMMA RenewalTracked ==
  ASSUME Sound, Tracked, UNCHANGED <<tokens, local, session>>, NEW t \in Tabs, OnlyRenew(t),
         renew[t].answer = None \/ renew'[t] = renew[t], Renewing(tokens, renew'[t], Stored(t)),
         \A u \in Tabs : FormTracked(tokens, local, session, ask'[u]["form"])
  PROVE  Tracked'
<1>1. \A p : Held(tokens, renew, p) => Held(tokens, renew', p)
  BY DEF Held, Replacing, OnlyRenew
<1>2. Places(tokens', local', session', renew')
  BY <1>1 DEF Tracked, Places
<1>3. ASSUME NEW u \in Tabs PROVE Renewing(tokens', renew'[u], Stored(u)')
  <2>1. Stored(u)' = Stored(u)
    BY DEF Stored
  <2>. QED BY <1>3, <2>1 DEF Tracked, OnlyRenew
<1>. QED BY <1>2, <1>3 DEF Tracked, Form

LEMMA RenewCheckTracked ==
  ASSUME Sound, Tracked, NEW t \in Tabs, RenewCheck(t)
  PROVE  Tracked'
<1>1. /\ UNCHANGED <<tokens, local, session, ask>> /\ OnlyRenew(t)
      /\ renew'[t].pair = renew[t].pair /\ renew'[t].answer = None /\ renew[t].pc = "sent"
  BY RenewCheckFacts DEF server, browser
<1>2. renew[t] # NoRenewal /\ renew[t].answer = None
  BY <1>1, SoundParts DEF NoRenewal, RenewSound, RenewalSound
<1>3. Renewing(tokens, renew'[t], Stored(t))
  BY <1>1, <1>2 DEF Tracked, Renewing
<1>4. \A u \in Tabs : FormTracked(tokens, local, session, ask'[u]["form"])
  BY <1>1 DEF Tracked, Form
<1>. QED BY <1>1, <1>2, <1>3, <1>4, RenewalTracked

LEMMA DeniedTracked ==
  ASSUME Sound, Tracked, NEW t \in Tabs, NEW s \in Slots, Denied(t, s)
  PROVE  Tracked'
<1>1. /\ UNCHANGED <<tokens, local, session>> /\ OnlyRenew(t) /\ Only(t, s)
      /\ ask[t][s].answer = "denied" /\ ask'[t][s].what = ask[t][s].what
      /\ ask'[t][s].pc \in {"answered", "waiting"}
      /\ ask'[t][s].answer # "ok"
  BY DeniedFacts DEF server, browser, Same
<1>2. /\ renew[t].answer = None \/ renew'[t] = renew[t]
      /\ Renewing(tokens, renew'[t], Stored(t))
  <2>1. CASE renew'[t] = renew[t]
    BY <2>1 DEF Tracked
  <2>2. CASE renew'[t] # renew[t]
    BY <2>2, DeniedFacts DEF Renewing, NoRenewal
  <2>. QED BY <2>1, <2>2
<1>3. ASSUME NEW u \in Tabs PROVE FormTracked(tokens, local, session, ask'[u]["form"])
  <2>1. CASE u = t /\ s = "form"
    BY <1>1, <2>1, OtherForms
  <2>2. CASE ~(u = t /\ s = "form")
    <3>1. ask'[u]["form"] = ask[u]["form"]
      BY <1>1, <1>3, <2>2 DEF Only, Slots
    <3>. QED BY <1>3, <3>1 DEF Tracked, Form
  <2>. QED BY <2>1, <2>2
<1>. QED BY <1>1, <1>2, <1>3, RenewalTracked

(* The place in which a tab looks is the only one that knows its session.   *)
LEMMA ApartFromOthers ==
  ASSUME Places(tokens, local, session, renew), NEW t \in Tabs, NEW u \in Tabs, u # t,
         Stored(t) # None, session[u] # None
  PROVE  tokens[Stored(t)].family # tokens[session[u]].family
  BY DEF Places, Apart, Stored

LEMMA RenewCommitTracked ==
  ASSUME Sound, Steady, Tracked, ~Crossing, NEW t \in Tabs, RenewCommit(t)
  PROVE  Tracked'
<1>. DEFINE m == Len(tokens) + 1
            p == renew[t].pair
<1>1. /\ UNCHANGED <<local, session, ask>> /\ OnlyRenew(t)
      /\ renew[t].pc = "checked" /\ renew'[t].pair = p /\ renew[t] # NoRenewal
  BY RenewCommitFacts DEF browser, NoRenewal
<1>2. \A u \in Tabs : ~Changing(u) /\ (u # t => renew[u] = NoRenewal)
  BY <1>1, RenewalIsAlone
<1>3. renew[t].answer = None /\ p = Stored(t) /\ p # None
  BY <1>1, SoundParts DEF RenewSound, RenewalSound, Tracked, Renewing
<1>4. CASE ~active
  <2>1. tokens' = tokens /\ renew'[t].answer = None
    BY <1>4, RenewCommitFacts
  <2>2. Renewing(tokens, renew'[t], Stored(t))
    BY <1>1, <1>3, <2>1 DEF Renewing
  <2>3. \A u \in Tabs : FormTracked(tokens, local, session, ask'[u]["form"])
    BY <1>1 DEF Tracked, Form
  <2>. QED BY <1>1, <1>3, <2>1, <2>2, <2>3, RenewalTracked
<1>5. CASE active
  <2>1. /\ Len(tokens') = m /\ p \in 1..Len(tokens) /\ ~tokens'[p].live
        /\ tokens'[m].family = tokens[p].family /\ TableGrows /\ m \in Nat
        /\ renew'[t].answer = m
    <3>1. renew'[t].answer = m
      <4>1. \/ active /\ renew'[t].answer = Len(tokens) + 1
            \/ ~active /\ renew'[t].answer = None /\ tokens' = tokens
        BY RenewCommitFacts
      <4>. QED BY <1>5, <4>1
    <3>2. m \in Nat
      BY SoundParts
    <3>. QED BY <1>5, <3>1, <3>2, RenewTable
  <2>2. \A n \in 1..Len(tokens') : n = m \/ n \in 1..Len(tokens)
    BY <2>1, SoundParts
  <2>3. tokens[p].live
    BY <1>1 DEF Steady, RenewalHolds
  <2>4. \A n \in 1..Len(tokens) : tokens'[n].live => tokens'[n].family # tokens[p].family
    <3>1. ASSUME NEW n \in 1..Len(tokens), tokens'[n].live, tokens'[n].family = tokens[p].family
          PROVE  FALSE
      <4>1. tokens[n].live /\ tokens[n].family = tokens[p].family
        BY <2>1, <3>1 DEF TableGrows
      <4>2. n = p
        BY <2>1, <2>3, <4>1 DEF OneLives, Steady, TableSteady
      <4>. QED BY <2>1, <3>1, <4>2
    <3>. QED BY <3>1
  <2>5. Newest(tokens', m)
    BY <2>1, <2>2, <2>4 DEF Newest
  <2>6. ASSUME NEW q \in Nat, q <= Len(tokens), Newest(tokens, q),
               q # None => tokens[q].family # tokens[p].family
        PROVE  Newest(tokens', q)
    <3>1. q = None \/ q \in 1..Len(tokens)
      BY <2>6, SoundParts DEF None
    <3>. QED BY <2>1, <2>2, <2>6, <3>1 DEF Newest, TableGrows
  <2>7. ASSUME NEW q \in Nat, NEW r \in Nat, q <= Len(tokens), r <= Len(tokens), Apart(tokens, q, r)
        PROVE  Apart(tokens', q, r)
    <3>1. (q # None => q \in 1..Len(tokens)) /\ (r # None => r \in 1..Len(tokens))
      BY <2>7, SoundParts DEF None
    <3>. QED BY <2>1, <2>7, <3>1 DEF Apart, TableGrows
  <2>8. Held(tokens', renew', p)
    BY <1>1, <2>1 DEF Held, Replacing, None
  <2>9. \A q : Held(tokens, renew, q) => Newest(tokens, q)
    BY <1>2, <1>3 DEF Held, Replacing, NoRenewal
  <2>10. Places(tokens', local', session', renew')
    <3>1. Held(tokens', renew', local')
      <4>1. CASE local = p
        BY <1>1, <2>8, <4>1
      <4>2. CASE local # p
        <5>1. local # None => tokens[local].family # tokens[p].family
          BY <1>3, <4>2 DEF Stored, Tracked, Places, Apart
        <5>. QED BY <1>1, <2>6, <2>9, <5>1, PairTypes DEF Tracked, Places, Held
      <4>. QED BY <4>1, <4>2
    <3>2. ASSUME NEW u \in Tabs PROVE Held(tokens', renew', session'[u])
      <4>1. CASE session[u] = p
        BY <1>1, <2>8, <4>1
      <4>2. CASE session[u] # p
        <5>1. session[u] # None => tokens[session[u]].family # tokens[p].family
          BY <1>3, <3>2, <4>2 DEF Stored, Tracked, Places, Apart
        <5>. QED BY <1>1, <2>6, <2>9, <3>2, <5>1, PairTypes DEF Tracked, Places, Held
      <4>. QED BY <4>1, <4>2
    <3>3. ASSUME NEW u \in Tabs PROVE Apart(tokens', local', session'[u])
      BY <1>1, <2>7, <3>3, PairTypes DEF Tracked, Places
    <3>4. ASSUME NEW u \in Tabs, NEW v \in Tabs, u # v PROVE Apart(tokens', session'[u], session'[v])
      BY <1>1, <2>7, <3>4, PairTypes DEF Tracked, Places
    <3>. QED BY <3>1, <3>2, <3>3, <3>4 DEF Places
  <2>11. ASSUME NEW u \in Tabs PROVE Renewing(tokens', renew'[u], Stored(u)')
    <3>1. CASE u = t
      <4>1. Stored(t)' = Stored(t)
        BY <1>1 DEF Stored
      <4>2. tokens'[p].family = tokens[p].family
        BY <2>1 DEF TableGrows
      <4>. QED BY <1>1, <1>3, <2>1, <2>5, <3>1, <4>1, <4>2 DEF Renewing
    <3>2. CASE u # t
      BY <1>1, <1>2, <2>11, <3>2 DEF OnlyRenew, Renewing
    <3>. QED BY <3>1, <3>2
  <2>12. ASSUME NEW u \in Tabs PROVE FormTracked(tokens', local', session', ask'[u]["form"])
    <3>1. ask'[u]["form"] = Form(u) /\ ~Changing(u)
      BY <1>1, <1>2, <2>12 DEF Form
    <3>. QED BY <2>12, <3>1, StillTracked
  <2>. QED BY <2>10, <2>11, <2>12 DEF Tracked, Form
<1>. QED BY <1>4, <1>5

(* The storages of a tab are given another pair, or none.                   *)
LEMMA StorageTracked ==
  ASSUME Sound, Places(tokens, local, session, renew), NEW t \in Tabs,
         NEW pair \in Nat, NEW remember \in BOOLEAN, NEW ren,
         clearTokens(t) \/ setTokens(t, pair, remember),
         \A u \in Tabs : u # t => Held(tokens, ren, session[u]),
         clearTokens(t) \/ /\ Newest(tokens, pair)
                           /\ \A u \in Tabs : u # t => Apart(tokens, pair, session[u])
  PROVE  Places(tokens, local', session', ren)
<1>1. Held(tokens, ren, None) /\ \A q : Apart(tokens, None, q) /\ Apart(tokens, q, None)
  BY DEF Held, Newest, Apart
<1>2. session \in [Tabs -> Nat]
  BY DEF Sound, Shape
<1>3. CASE clearTokens(t)
  <2>1. local' = None /\ session'[t] = None /\ \A u \in Tabs : u # t => session'[u] = session[u]
    BY <1>2, <1>3 DEF clearTokens
  <2>. QED BY <1>1, <2>1 DEF Places
<1>4. CASE setTokens(t, pair, remember) /\ ~clearTokens(t)
  <2>1. /\ local' = IF remember THEN pair ELSE None
        /\ session'[t] = IF remember THEN None ELSE pair
        /\ \A u \in Tabs : u # t => session'[u] = session[u]
    BY <1>2, <1>4 DEF setTokens
  <2>2. Held(tokens, ren, pair) /\ \A u \in Tabs : u # t => Apart(tokens, pair, session[u])
    BY <1>4 DEF Held
  <2>3. \A u \in Tabs : u # t => Apart(tokens, session[u], pair)
    BY <2>2 DEF Apart
  <2>4. CASE remember
    BY <1>1, <2>1, <2>2, <2>4 DEF Places
  <2>5. CASE ~remember
    BY <1>1, <2>1, <2>2, <2>3, <2>5 DEF Places
  <2>. QED BY <2>4, <2>5
<1>. QED BY <1>3, <1>4

LEMMA RenewedTracked ==
  ASSUME Sound, Tracked, ~Crossing, NEW t \in Tabs, Renewed(t)
  PROVE  Tracked'
<1>. DEFINE p == renew[t].answer
<1>1. /\ tokens' = tokens /\ renew[t] # NoRenewal /\ renew'[t] = NoRenewal /\ OnlyRenew(t)
      /\ clearTokens(t) \/ (p # None /\ setTokens(t, p, rememberEnabled))
      /\ \A u \in Tabs : u # t => ask'[u] = ask[u]
  BY RenewedFacts DEF server, NoRenewal
<1>2. \A u \in Tabs : ~Changing(u) /\ (u # t => renew[u] = NoRenewal)
  BY <1>1, RenewalIsAlone
<1>3. \A u \in Tabs : renew'[u] = NoRenewal
  BY <1>1, <1>2 DEF OnlyRenew
<1>4. /\ p \in Nat /\ rememberEnabled \in BOOLEAN /\ Places(tokens, local, session, renew)
      /\ renew[t].pair = Stored(t) /\ Stored(t) # None
      /\ p # None => Newest(tokens, p) /\ tokens[p].family = tokens[Stored(t)].family
  <2>1. renew[t].pair # None
    BY <1>1, SoundParts DEF RenewSound, RenewalSound
  <2>. QED BY <1>1, <2>1, PairTypes DEF Tracked, Renewing, rememberEnabled
<1>5. ASSUME NEW u \in Tabs, u # t
      PROVE  Held(tokens, renew', session[u]) /\ (p # None => Apart(tokens, p, session[u]))
  <2>1. session[u] # None => tokens[Stored(t)].family # tokens[session[u]].family
    BY <1>4, <1>5, ApartFromOthers
  <2>2. ~Replacing(renew, session[u])
    <3>1. SUFFICES ASSUME NEW v \in Tabs, renew[v].answer # None, renew[v].pair = session[u]
                   PROVE  FALSE
      BY DEF Replacing
    <3>2. v = t
      BY <1>2, <3>1 DEF NoRenewal
    <3>. QED BY <1>4, <2>1, <3>1, <3>2
  <2>3. Newest(tokens, session[u])
    BY <1>5, <2>2 DEF Tracked, Places, Held
  <2>. QED BY <1>4, <2>1, <2>3 DEF Held, Apart
<1>6. Places(tokens, local', session', renew')
  <2>1. CASE clearTokens(t)
    BY <1>4, <1>5, <2>1, StorageTracked
  <2>2. CASE p # None /\ setTokens(t, p, rememberEnabled)
    <3>. HIDE DEF p
    <3>. QED BY <1>4, <1>5, <2>2, StorageTracked
  <2>. QED BY <1>1, <2>1, <2>2
<1>7. ASSUME NEW u \in Tabs PROVE Renewing(tokens', renew'[u], Stored(u)')
  BY <1>3, <1>7 DEF Renewing
<1>8. ASSUME NEW u \in Tabs PROVE FormTracked(tokens', local', session', ask'[u]["form"])
  <2>1. CASE ask'[u]["form"] = ask[u]["form"]
    <3>1. ask'[u]["form"] = Form(u) /\ ~Changing(u)
      BY <1>2, <1>8, <2>1 DEF Form
    <3>. QED BY <1>8, <3>1, StillTracked
  <2>2. CASE ask'[u]["form"] # ask[u]["form"]
    <3>1. u = t
      BY <1>1, <1>8, <2>2
    <3>2. /\ ask[t]["form"].pc = "waiting" /\ ask'[t]["form"].what = ask[t]["form"].what
          /\ ask'[t]["form"].answer # "ok"
      BY <2>2, <3>1, RenewedFacts DEF Slots
    <3>3. ask[t]["form"].what \in Authorised
      BY <3>2, SoundParts DEF AskSound, RequestSound, Coherent, Slots
    <3>. QED BY <3>1, <3>2, <3>3, OtherForms DEF Authorised
  <2>. QED BY <2>1, <2>2
<1>. QED BY <1>1, <1>6, <1>7, <1>8 DEF Tracked, Form

LEMMA TakeTracked ==
  ASSUME Sound, Tracked, ~Crossing, NEW t \in Tabs, NEW s \in Slots, Take(t, s)
  PROVE  Tracked'
<1>. DEFINE a == ask[t][s]
            b == ask'[t][s]
<1>1. /\ UNCHANGED <<tokens, renew>> /\ Only(t, s) /\ a.pc = "answered" /\ TableGrows
      /\ Len(tokens') = Len(tokens)
      /\ \A u \in Tabs : u # t => ask'[u]["form"] = ask[u]["form"]
  BY TakeFacts, TableUnchanged DEF Sound, server, Only, Slots
<1>2. ASSUME b = NoAsk \/ (b.what \in {"me", "login"} /\ b.answer = "none")
      PROVE  FormTracked(tokens, local, session, b)
  BY <1>2, OtherForms DEF NoAsk
<1>3. CASE UNCHANGED <<local, session>>
  <2>1. b = NoAsk \/ (b.what \in {"me", "login"} /\ b.answer = "none")
    BY TakeFacts DEF Cleared
  <2>2. FormTracked(tokens, local, session, ask'[t]["form"])
    <3>1. CASE s = "form"
      BY <1>2, <2>1, <3>1
    <3>2. CASE s # "form"
      <4>1. ask'[t]["form"] = Form(t)
        BY <1>1, <3>2 DEF Only, Form, Slots
      <4>. QED BY <4>1 DEF Tracked
    <3>. QED BY <3>1, <3>2
  <2>. QED BY <1>1, <1>3, <2>2, OneFormTracked
<1>4. CASE ~UNCHANGED <<local, session>>
  <2>1. /\ a.what \in {"login", "register", "logout", "delete"}
        /\ \/ clearTokens(t) /\ b = NoAsk
           \/ /\ a.what \in {"login", "register"} /\ a.answer = "ok"
              /\ setTokens(t, a.pair, a.remember)
              /\ b = NoAsk \/ (b.what = "me" /\ b.answer = "none")
    BY <1>4, TakeFacts DEF Cleared
  <2>2. s = "form" /\ Changing(t)
    <3>1. s # "background"
      BY <2>1, SoundParts DEF AskSound, RequestSound
    <3>. QED BY <1>1, <2>1, <3>1 DEF Slots, Changing
  <2>3. \A u \in Tabs : renew[u] = NoRenewal /\ (u # t => ~Changing(u))
    BY <2>2, FormIsAlone
  <2>4. \A u \in Tabs : Held(tokens, renew, session[u])
    BY DEF Tracked, Places
  <2>5. a.pair \in Nat /\ a.remember \in BOOLEAN /\ Places(tokens, local, session, renew)
    <3>1. a \in Request
      BY SoundParts DEF AskSound
    <3>. QED BY <3>1 DEF Request, Tracked
  <2>6. Places(tokens, local', session', renew)
    <3>1. CASE clearTokens(t)
      BY <2>4, <2>5, <3>1, StorageTracked
    <3>2. CASE ~clearTokens(t)
      <4>1. setTokens(t, a.pair, a.remember)
        BY <2>1, <3>2
      <4>2. Newest(tokens, a.pair) /\ \A u \in Tabs : Apart(tokens, a.pair, session[u])
        BY <2>1, <2>2, <3>2 DEF Tracked, FormTracked, Form
      <4>. HIDE DEF a
      <4>. QED BY <2>4, <2>5, <4>1, <4>2, StorageTracked
    <3>. QED BY <3>1, <3>2
  <2>7. ASSUME NEW u \in Tabs PROVE Renewing(tokens', renew'[u], Stored(u)')
    BY <1>1, <2>3, <2>7 DEF Renewing
  <2>8. ASSUME NEW u \in Tabs PROVE FormTracked(tokens', local', session', ask'[u]["form"])
    <3>1. CASE u = t
      BY <2>1, <2>2, <3>1, OtherForms DEF NoAsk
    <3>2. CASE u # t
      <4>1. ask'[u]["form"] = Form(u) /\ ~Changing(u)
        BY <1>1, <2>3, <2>8, <3>2 DEF Form
      <4>. QED BY <2>8, <4>1, StillTracked
    <3>. QED BY <3>1, <3>2
  <2>. QED BY <1>1, <2>6, <2>7, <2>8 DEF Tracked, Form
<1>. QED BY <1>3, <1>4

LEMMA NextTracked ==
  ASSUME Sound, Steady, Tracked, ~Crossing, ~Crossing', failures' = 0, [Next]_vars
  PROVE  Tracked'
<1>1. ASSUME NEW t \in Tabs, Client(t) PROVE Tracked'
  BY <1>1, AskingTracked, RenewedTracked, DeniedTracked, TakeTracked DEF Client
<1>2. ASSUME NEW t \in Tabs, Handler(t) PROVE Tracked'
  BY <1>2, RenewCheckTracked, RenewCommitTracked, CheckTracked, EntryTracked, CommitTracked
     DEF Handler
<1>3. CASE UNCHANGED <<tokens, local, session, renew, ask>>
  BY <1>3 DEF Tracked, Form, Stored
<1>4. CASE Environment
  <2>1. ASSUME NEW t \in Tabs, NEW s \in Slots,
               LoseRenewal(t) \/ Reload(t) \/ Lose(t, s)
        PROVE  FALSE
    BY <2>1, LoseRenewalFacts, ReloadFacts, LoseFacts
  <2>2. "form" \in Slots
    BY DEF Slots
  <2>3. Minute \/ \E pair \in Pairs : Expire(pair)
    BY <1>4, <2>1, <2>2 DEF Environment
  <2>. QED BY <1>3, <2>3 DEF Minute, Expire, server, browser
<1>5. CASE UNCHANGED vars
  BY <1>3, <1>5 DEF vars, server, browser
<1>. QED BY <1>1, <1>2, <1>4, <1>5 DEF Next

LEMMA InitTracked ==
  ASSUME Init
  PROVE  Tracked
<1>1. Len(tokens) = 1 /\ local = 1 /\ \A t \in Tabs : session[t] = None
  BY DEF Init
<1>2. \A t \in Tabs : renew[t] = NoRenewal /\ Form(t).what = "none"
  BY DEF Init, Form, NoAsk, Slots
<1>3. Places(tokens, local, session, renew)
  BY <1>1 DEF Places, Held, Newest, Apart
<1>. QED BY <1>2, <1>3, OtherForms DEF Tracked, Renewing

TrackedInv == CalmInv /\ (~crossed /\ failures = 0 => Tracked)

LEMMA TrackedStep ==
  ASSUME TrackedInv, [Next]_vars
  PROVE  TrackedInv'
<1>1. CalmInv' /\ Shape /\ Shape'
  BY CalmStep DEF TrackedInv, CalmInv, Sound
<1>2. ASSUME ~crossed', failures' = 0 PROVE Tracked'
  <2>1. ~crossed /\ ~Crossing /\ ~Crossing' /\ Sound /\ Steady
    BY <1>1, <1>2 DEF TrackedInv, CalmInv, Remembered, Next, vars
  <2>2. failures = 0
    <3>1. CASE UNCHANGED failures
      BY <1>2, <3>1
    <3>2. CASE Fail
      BY <1>1, <1>2, <3>2 DEF Fail, Shape
    <3>3. UNCHANGED failures \/ Fail
      <4>1. ASSUME NEW t \in Tabs, Client(t) \/ Handler(t) PROVE UNCHANGED failures
        BY <4>1 DEF Client, Handler, Open, Poll, Submit, Renewed, Denied, Take, RenewCheck,
           RenewCommit, Check, CommitEntry, CommitExit, CommitCode, CommitPassword, CommitDelete
      <4>2. CASE Environment
        BY <4>2 DEF Environment, Minute, Expire, Lose, LoseRenewal, Reload
      <4>. QED BY <4>1, <4>2 DEF Next, vars
    <3>. QED BY <3>1, <3>2, <3>3
  <2>. QED BY <1>2, <2>1, <2>2, NextTracked DEF TrackedInv
<1>. QED BY <1>1, <1>2 DEF TrackedInv

(* No tab is left with a token whose successor another place holds.         *)
THEOREM AlwaysTracked == Spec => []TrackedInv
<1>1. Init => TrackedInv
  BY InitSound, InitSteady, InitTracked DEF TrackedInv, CalmInv, Remembered
<1>2. TrackedInv /\ [Next]_vars => TrackedInv'
  BY TrackedStep
<1>. QED BY <1>1, <1>2, PTL DEF Spec

(* logout_user: the token it revokes was the only one of its session.       *)
THEOREM LogoutAlwaysEndsSession == Spec => []LogoutEndsSession
<1>1. TrackedInv => LogoutEndsSession
  <2>1. SUFFICES ASSUME TrackedInv, NEW t \in Tabs, Form(t).what = "logout", Form(t).answer = "ok",
                        Form(t).pair # None, failures = 0, ~crossed
                 PROVE  Family(tokens[Form(t).pair].family) = {}
    BY DEF LogoutEndsSession, Form
  <2>2. Over(tokens, Form(t).pair) /\ Shape
    BY <2>1 DEF TrackedInv, Tracked, FormTracked, CalmInv, Sound
  <2>. QED BY <2>2 DEF Over, Family, Shape
<1>. QED BY <1>1, AlwaysTracked, PTL

-----------------------------------------------------------------------------
(* A remembered session whose password is changed, and nothing else         *)

Relogging(a) == (a.what = "patch" /\ a.answer = "ok") \/ a.what = "login"

FormKept(table, pw, a) ==
  /\ a.what \in {"none", "me", "patch", "login"}
  /\ a.what = "patch" /\ a.answer = "ok" => a.typed + 1 = pw
  /\ a.what = "login" =>
       /\ a.remember /\ a.typed = pw
       /\ a.pc = "answered" => a.answer = "ok" /\ a.pair # None /\ table[a.pair].live

RenewKept(table, loc, r) ==
  /\ r.pc \in {"sent", "checked"} => r.pair = loc /\ table[loc].live
  /\ r.pc = "answered" => r.answer # None /\ table[r.answer].live

(* The stored token lives, or one that does is on its way to the storage.   *)
Kept ==
  /\ active /\ local # None /\ \A t \in Tabs : session[t] = None
  /\ tokens[local].live \/ \E t \in Tabs : Relogging(Form(t)) \/ renew[t].answer # None
  /\ \A t \in Tabs : RenewKept(tokens, local, renew[t]) /\ FormKept(tokens, password, Form(t))

(* The tokens and the storages stay; one request and one refresh go on.     *)
LEMMA OneKept ==
  ASSUME Kept, UNCHANGED <<active, password, tokens, local, session>>,
         NEW t \in Tabs, \A u \in Tabs : u # t => ask'[u]["form"] = ask[u]["form"] /\ renew'[u] = renew[u],
         RenewKept(tokens, local, renew'[t]), FormKept(tokens, password, ask'[t]["form"]),
         Relogging(Form(t)) => Relogging(ask'[t]["form"]),
         renew[t].answer # None => renew'[t].answer # None
  PROVE  Kept'
<1>1. ASSUME NEW u \in Tabs
      PROVE  /\ RenewKept(tokens, local, renew'[u]) /\ FormKept(tokens, password, ask'[u]["form"])
             /\ Relogging(Form(u)) => Relogging(ask'[u]["form"])
             /\ renew[u].answer # None => renew'[u].answer # None
  BY <1>1 DEF Kept, Form
<1>2. tokens[local].live \/ \E u \in Tabs : Relogging(ask'[u]["form"]) \/ renew'[u].answer # None
  BY <1>1 DEF Kept
<1>3. active' /\ local' # None /\ \A u \in Tabs : session'[u] = None
  BY DEF Kept
<1>. QED BY <1>1, <1>2, <1>3 DEF Kept, Form

(* The form of a tab, when another request of it has changed.               *)
LEMMA SameForm ==
  ASSUME NEW t \in Tabs, Only(t, "background")
  PROVE  \A u \in Tabs : ask'[u]["form"] = ask[u]["form"]
  BY DEF Only, Slots

LEMMA AskingKept ==
  ASSUME Sound, Kept, NEW t \in Tabs, Open(t) \/ Poll(t) \/ Submit(t),
         Submit(t) => \A n \in 1..Len(commands') : commands'[n] = "patch"
  PROVE  Kept'
<1>1. Shape /\ UNCHANGED <<active, password, tokens, local, session, renew>>
  BY DEF Open, Poll, Submit, Sound, server, browser
<1>2. RenewKept(tokens, local, renew'[t])
  BY <1>1 DEF Kept
<1>3. CASE Poll(t)
  <2>1. Ask(t, "background", Fields("poll", None, FALSE)) /\ "poll" \in Whats /\ None \in Nat
    BY <1>3 DEF Poll, Whats, None
  <2>2. Only(t, "background")
    BY <1>1, <2>1, NewAsk DEF Slots
  <2>3. ask'[t]["form"] = Form(t) /\ FormKept(tokens, password, Form(t))
    BY <2>2, SameForm DEF Kept, Form
  <2>. QED BY <1>1, <1>2, <2>2, <2>3, SameForm, OneKept
<1>4. ASSUME NEW what \in {"me", "patch"}, NEW typed \in Nat,
             Ask(t, "form", Fields(what, typed, FALSE)), Idle(t, "form")
      PROVE  Kept'
  <2>1. what \in Whats /\ "form" \in Slots
    BY <1>4 DEF Whats, Slots
  <2>2. Only(t, "form") /\ ask'[t]["form"].what = what /\ ask'[t]["form"].answer = "none"
    BY <1>1, <1>4, <2>1, NewAsk
  <2>3. FormKept(tokens, password, ask'[t]["form"])
    BY <1>4, <2>2 DEF FormKept
  <2>4. ~Relogging(Form(t))
    BY <1>4 DEF Relogging, Idle, NoAsk, Form
  <2>. QED BY <1>1, <1>2, <2>2, <2>3, <2>4, OneKept DEF Only, Slots
<1>5. CASE Open(t)
  BY <1>4, <1>5 DEF Open, None
<1>6. CASE Submit(t)
  <2>1. PICK f \in Forms(t) : Ask(t, "form", f) /\ commands' = Append(commands, f.what)
    BY <1>6 DEF Submit
  <2>2. PICK what \in Whats \ {"none", "poll", "me"}, typed \in Nat, remember \in BOOLEAN :
          f = Fields(what, typed, remember) /\ f.what = what
    BY <1>1, FormFields
  <2>3. what = "patch"
    <3>1. commands \in Seq(Whats) /\ Len(commands) \in Nat
      BY <1>1 DEF Shape
    <3>2. commands' = Append(commands, what)
      BY <2>1, <2>2
    <3>3. Len(commands') = Len(commands) + 1 /\ commands'[Len(commands) + 1] = what
      BY <3>1, <3>2
    <3>. QED BY <1>6, <3>1, <3>3
  <2>4. remember = FALSE
    <3>1. f.what = "patch" /\ f.remember = remember
      BY <2>2, <2>3 DEF Fields, NoAsk
    <3>2. f.remember = FALSE
      <4>1. ASSUME NEW w, NEW n, NEW r, f = Fields(w, n, r) PROVE f.what = w /\ f.remember = r
        BY <4>1 DEF Fields, NoAsk
      <4>2. CASE screen[t] = "auth"
        <5>1. \/ \E r \in BOOLEAN : f = Fields("login", password, r)
              \/ f = Fields("register", password, FALSE) \/ f = Fields("code", None, FALSE)
              \/ \E n \in 1..Len(codes) : f = Fields("reset", n, FALSE)
          BY <4>2 DEF Forms
        <5>. QED BY <3>1, <4>1, <5>1
      <4>3. CASE screen[t] # "auth"
        <5>1. \/ f = Fields("logout", None, FALSE) \/ f = Fields("patch", password, FALSE)
              \/ f = Fields("delete", password, FALSE)
          BY <4>3 DEF Forms
        <5>. QED BY <4>1, <5>1
      <4>. QED BY <4>2, <4>3
    <3>. QED BY <3>1, <3>2
  <2>. QED BY <1>4, <1>6, <2>1, <2>2, <2>3, <2>4 DEF Submit
<1>. QED BY <1>3, <1>5, <1>6

LEMMA CheckKept ==
  ASSUME Sound, Kept, NEW t \in Tabs, NEW s \in Slots, Check(t, s)
  PROVE  Kept'
<1>. DEFINE a == ask[t]["form"]
            b == ask'[t]["form"]
<1>1. UNCHANGED <<active, password, tokens, local, session, renew>> /\ Only(t, s)
  BY CheckFacts DEF server, browser
<1>2. RenewKept(tokens, local, renew'[t]) /\ FormKept(tokens, password, a) /\ active
  BY <1>1 DEF Kept, Form
<1>3. FormKept(tokens, password, b) /\ (Relogging(a) => Relogging(b))
  <2>1. CASE s = "background"
    BY <1>1, <1>2, <2>1, SameForm
  <2>2. CASE s = "form"
    <3>1. /\ b.what = a.what /\ b.typed = a.typed /\ b.remember = a.remember /\ a.pc = "sent"
          /\ b.answer = "ok" => a.what \in {"poll", "me"}
          /\ b.pc = "answered" => a.what \in Authorised \/ b.answer = "ok" \/ ~Passes(a)
      BY <2>2, CheckFacts
    <3>2. a.answer = "none"
      BY <3>1, SoundParts DEF AskSound, RequestSound, Coherent, Slots
    <3>3. a.what = "login" => b.pc # "answered"
      <4>1. SUFFICES ASSUME a.what = "login" PROVE b.pc # "answered"
        OBVIOUS
      <4>2. Passes(a)
        BY <1>2, <4>1 DEF Passes, FormKept
      <4>. QED BY <3>1, <4>1, <4>2 DEF Authorised
    <3>. QED BY <1>2, <3>1, <3>2, <3>3 DEF FormKept, Relogging
  <2>. QED BY <2>1, <2>2 DEF Slots
<1>. QED BY <1>1, <1>2, <1>3, OneKept DEF Only, Slots, Form

LEMMA DeniedKept ==
  ASSUME Sound, Remembered, ~crossed, ~Crossing', Kept, NEW t \in Tabs, NEW s \in Slots, Denied(t, s)
  PROVE  Kept'
<1>. DEFINE a == ask[t]["form"]
            b == ask'[t]["form"]
<1>1. /\ UNCHANGED <<active, password, tokens, local, session>> /\ Only(t, s) /\ OnlyRenew(t)
      /\ ask[t][s].answer = "denied" /\ ask'[t][s].what = ask[t][s].what /\ ask'[t][s].answer # "ok"
  BY DeniedFacts DEF server, browser, Same
<1>2. FormKept(tokens, password, b) /\ (Relogging(a) => Relogging(b))
  <2>1. FormKept(tokens, password, a)
    BY DEF Kept, Form
  <2>2. CASE s = "background"
    BY <1>1, <2>1, <2>2, SameForm
  <2>3. CASE s = "form"
    <3>1. a.what # "login"
      BY <1>1, <2>3, SoundParts DEF AskSound, RequestSound, Coherent, Authorised
    <3>. QED BY <1>1, <2>1, <2>3, <3>1 DEF FormKept, Relogging
  <2>. QED BY <2>2, <2>3 DEF Slots
<1>3. RenewKept(tokens, local, renew'[t]) /\ (renew[t].answer # None => renew'[t].answer # None)
  <2>1. CASE renew'[t] = renew[t]
    BY <2>1 DEF Kept
  <2>2. CASE renew'[t] # renew[t]
    <3>1. renew[t] = NoRenewal /\ renew'[t].pc = "sent" /\ renew'[t].pair = Stored(t)
      BY <2>2, DeniedFacts
    <3>2. Stored(t) = local
      BY DEF Stored, Kept
    <3>3. renew'[t] # NoRenewal
      BY <3>1 DEF NoRenewal
    <3>4. \A u \in Tabs : renew[u].answer = None
      <4>1. ASSUME NEW u \in Tabs, u # t PROVE renew[u] = NoRenewal
        BY <1>1, <3>3, <4>1 DEF Crossing, OnlyRenew
      <4>. QED BY <3>1, <4>1 DEF NoRenewal
    <3>5. ASSUME NEW u \in Tabs, Relogging(Form(u)) PROVE FALSE
      <4>1. ask'[u]["form"] = ask[u]["form"]
        <5>1. CASE u = t /\ s = "form"
          <6>1. ask[t]["form"].what # "login" /\ ask[t]["form"].answer = "denied"
            BY <1>1, <5>1, SoundParts DEF AskSound, RequestSound, Coherent, Authorised
          <6>. QED BY <3>5, <5>1, <6>1 DEF Relogging, Form
        <5>2. CASE ~(u = t /\ s = "form")
          BY <1>1, <3>5, <5>2 DEF Only, Slots
        <5>. QED BY <5>1, <5>2
      <4>2. Changing(u)'
        <5>1. Coherent(ask[u]["form"])
          BY <3>5, SoundParts DEF AskSound, RequestSound, Slots
        <5>2. ask[u]["form"].what # "me" /\ ask[u]["form"].pc \notin {"idle", "waiting"}
          BY <3>5, <5>1 DEF Relogging, Coherent, NoAsk, Authorised, Form
        <5>. QED BY <4>1, <5>2 DEF Changing
      <4>. QED BY <3>3, <4>2 DEF Crossing
    <3>6. tokens[local].live
      BY <3>4, <3>5 DEF Kept
    <3>. QED BY <3>1, <3>2, <3>6 DEF RenewKept, NoRenewal
  <2>. QED BY <2>1, <2>2
<1>. QED BY <1>1, <1>2, <1>3, OneKept DEF Only, OnlyRenew, Slots, Form

(* A form that changes nothing is kept whatever the tokens are.             *)
LEMMA CalmForm ==
  ASSUME Sound, Kept, NEW t \in Tabs, ~Changing(t), NEW table, NEW pw
  PROVE  FormKept(table, pw, Form(t)) /\ ~Relogging(Form(t))
<1>1. Coherent(Form(t)) /\ FormKept(tokens, password, Form(t))
  BY SoundParts DEF AskSound, RequestSound, Form, Slots, Kept
<1>2. Form(t).what = "me" \/ Form(t).pc \in {"idle", "waiting"}
  BY DEF Changing, Form
<1>3. NoAsk.what = "none"
  BY DEF NoAsk
<1>. QED BY <1>1, <1>2, <1>3 DEF Coherent, FormKept, Relogging, Authorised

(* The form of one tab is answered, and no other tab changes anything.      *)
LEMMA AnsweredKept ==
  ASSUME Sound, Kept, ~Crossing, NEW t \in Tabs, Changing(t), Only(t, "form"),
         UNCHANGED <<active, local, session, renew>>,
         FormKept(tokens', password', ask'[t]["form"]), Relogging(ask'[t]["form"])
  PROVE  Kept'
<1>1. \A u \in Tabs : renew[u] = NoRenewal /\ (u # t => ~Changing(u))
  BY FormIsAlone
<1>2. ASSUME NEW u \in Tabs
      PROVE  RenewKept(tokens', local', renew'[u]) /\ FormKept(tokens', password', ask'[u]["form"])
  <2>1. RenewKept(tokens', local', renew'[u])
    BY <1>1, <1>2 DEF RenewKept, NoRenewal
  <2>2. CASE u # t
    <3>1. ask'[u]["form"] = Form(u)
      BY <1>2, <2>2 DEF Only, Form, Slots
    <3>. QED BY <1>1, <1>2, <2>1, <2>2, <3>1, CalmForm
  <2>. QED BY <2>1, <2>2
<1>. QED BY <1>2 DEF Kept, Form

LEMMA EntryKept ==
  ASSUME Sound, Kept, ~Crossing, NEW t \in Tabs, NEW s \in Slots, CommitEntry(t, s)
  PROVE  Kept'
<1>. DEFINE a == ask[t]["form"]
            b == ask'[t]["form"]
<1>1. /\ s = "form" /\ Changing(t) /\ Only(t, "form") /\ UNCHANGED <<password, local, session, renew>>
      /\ a.what \in {"register", "login"} /\ Same(b, a) /\ b.pc = "answered"
  BY EntryFacts, CheckedForm DEF browser
<1>2. FormKept(tokens, password, a) /\ active /\ a.what = "login"
  BY <1>1 DEF Kept, Form, FormKept
<1>3. b.answer # "error"
  <2>1. SUFFICES ASSUME b.answer = "error" PROVE FALSE
    OBVIOUS
  <2>2. (a.what = "register") = active
    BY <1>1, <2>1, EntryFacts
  <2>. QED BY <1>2, <2>2
<1>4. b.answer = "ok" /\ b.pair = Len(tokens) + 1 /\ Len(tokens) \in Nat
  BY <1>1, <1>3, EntryFacts, SoundParts
<1>5. tokens'[b.pair].live
  BY <1>1, <1>3, <1>4, EntryTable
<1>6. active' = active
  <2>1. ~Answered(t, s, "error")
    BY <1>1, <1>3, AnsweredAsk DEF Sound
  <2>2. active' = TRUE
    BY <2>1 DEF CommitEntry
  <2>. QED BY <1>2, <2>2
<1>7. FormKept(tokens', password', b) /\ Relogging(b)
  BY <1>1, <1>2, <1>4, <1>5 DEF FormKept, Relogging, Same, None
<1>. QED BY <1>1, <1>6, <1>7, AnsweredKept

LEMMA CommitKept ==
  ASSUME Sound, Steady, Kept, ~Crossing, NEW t \in Tabs, NEW s \in Slots,
         CommitExit(t, s) \/ CommitCode(t, s) \/ CommitPassword(t, s) \/ CommitDelete(t, s)
  PROVE  Kept'
<1>. DEFINE a == ask[t]["form"]
            b == ask'[t]["form"]
<1>1. /\ s = "form" /\ Changing(t) /\ Only(t, "form") /\ UNCHANGED <<local, session, renew>>
      /\ Same(b, a) /\ a.pc = "checked"
  BY CommitFacts, CheckedForm DEF browser
<1>2. FormKept(tokens, password, a) /\ active
  BY DEF Kept, Form
<1>3. CommitPassword(t, s) /\ a.what = "patch"
  BY <1>1, <1>2 DEF FormKept, CommitExit, CommitCode, CommitPassword, CommitDelete
<1>4. password' = password + 1 /\ active' = active /\ Answered(t, s, "ok")
  BY <1>2, <1>3 DEF CommitPassword
<1>5. b.answer = "ok"
  BY <1>1, <1>4, AnsweredAsk DEF Sound
<1>6. a.typed = password
  BY <1>1, <1>3 DEF Steady, FormsHold, FormHolds, Form
<1>7. FormKept(tokens', password', b) /\ Relogging(b)
  BY <1>1, <1>3, <1>4, <1>5, <1>6 DEF FormKept, Relogging, Same
<1>. QED BY <1>1, <1>4, <1>7, AnsweredKept

LEMMA RenewCheckKept ==
  ASSUME Sound, Kept, NEW t \in Tabs, RenewCheck(t)
  PROVE  Kept'
<1>1. /\ UNCHANGED <<active, password, tokens, local, session, ask>> /\ OnlyRenew(t)
      /\ renew[t].pc = "sent" /\ renew'[t].pair = renew[t].pair
      /\ \/ renew'[t].pc = "checked" /\ tokens[renew[t].pair].live
         \/ renew'[t].pc = "answered" /\ ~tokens[renew[t].pair].live
  BY RenewCheckFacts DEF server, browser
<1>2. RenewKept(tokens, local, renew[t]) /\ FormKept(tokens, password, Form(t))
  BY DEF Kept
<1>3. renew[t].answer = None
  BY <1>1, SoundParts DEF RenewSound, RenewalSound
<1>4. RenewKept(tokens, local, renew'[t])
  BY <1>1, <1>2 DEF RenewKept
<1>. QED BY <1>1, <1>2, <1>3, <1>4, OneKept DEF OnlyRenew, Form

LEMMA RenewCommitKept ==
  ASSUME Sound, Kept, ~Crossing, NEW t \in Tabs, RenewCommit(t)
  PROVE  Kept'
<1>. DEFINE m == Len(tokens) + 1
<1>1. /\ UNCHANGED <<active, password, local, session, ask>> /\ OnlyRenew(t)
      /\ renew'[t].pc = "answered" /\ renew[t] # NoRenewal /\ active
  <2>1. active
    BY DEF Kept
  <2>2. renew[t].pc = "checked" /\ renew'[t].pc = "answered" /\ OnlyRenew(t)
        /\ UNCHANGED <<active, password, local, session, ask>>
    BY RenewCommitFacts DEF browser
  <2>. QED BY <2>1, <2>2 DEF NoRenewal
<1>2. tokens'[m].live /\ m \in Nat /\ m # None
  BY <1>1, RenewTable, SoundParts DEF None
<1>3. renew'[t].answer = m
  <2>1. \/ active /\ renew'[t].answer = Len(tokens) + 1
        \/ ~active /\ renew'[t].answer = None /\ tokens' = tokens
    BY RenewCommitFacts
  <2>. QED BY <1>1, <2>1
<1>4. \A u \in Tabs : ~Changing(u) /\ (u # t => renew[u] = NoRenewal)
  BY <1>1, RenewalIsAlone
<1>5. ASSUME NEW u \in Tabs
      PROVE  RenewKept(tokens', local', renew'[u]) /\ FormKept(tokens', password', ask'[u]["form"])
  <2>1. FormKept(tokens', password', Form(u)) /\ ask'[u]["form"] = Form(u)
    BY <1>1, <1>4, <1>5, CalmForm DEF Form
  <2>2. CASE u = t
    BY <1>1, <1>2, <1>3, <2>1, <2>2 DEF RenewKept
  <2>3. CASE u # t
    <3>1. renew'[u].pc = "idle"
      BY <1>1, <1>4, <1>5, <2>3 DEF OnlyRenew, NoRenewal
    <3>. QED BY <2>1, <3>1 DEF RenewKept
  <2>. QED BY <2>2, <2>3
<1>6. renew'[t].answer # None
  BY <1>2, <1>3
<1>7. active' /\ local' # None /\ \A u \in Tabs : session'[u] = None
  BY <1>1 DEF Kept
<1>. QED BY <1>5, <1>6, <1>7 DEF Kept, Form

LEMMA RenewedKept ==
  ASSUME Sound, Kept, ~Crossing, NEW t \in Tabs, Renewed(t)
  PROVE  Kept'
<1>. DEFINE p == renew[t].answer
<1>1. /\ UNCHANGED <<active, password, tokens>> /\ renew[t].pc = "answered"
      /\ renew'[t] = NoRenewal /\ OnlyRenew(t) /\ (\A u \in Tabs : u # t => ask'[u] = ask[u])
      /\ \/ p = None /\ clearTokens(t)
         \/ p # None /\ setTokens(t, p, rememberEnabled)
  BY RenewedFacts DEF server
<1>2. p # None /\ tokens[p].live
  BY <1>1 DEF Kept, RenewKept
<1>3. local' = p /\ \A u \in Tabs : session'[u] = None
  <2>1. setTokens(t, p, rememberEnabled) /\ rememberEnabled
    BY <1>1, <1>2 DEF rememberEnabled, Kept
  <2>2. session \in [Tabs -> Nat]
    BY DEF Sound, Shape
  <2>. QED BY <2>1, <2>2 DEF setTokens, Kept
<1>4. \A u \in Tabs : renew'[u] = NoRenewal /\ ~Changing(u)
  <2>1. renew[t] # NoRenewal
    BY <1>1 DEF NoRenewal
  <2>. QED BY <1>1, <2>1, RenewalIsAlone DEF OnlyRenew
<1>5. ASSUME NEW u \in Tabs PROVE FormKept(tokens', password', ask'[u]["form"])
  <2>1. CASE ask'[u]["form"] = ask[u]["form"]
    BY <1>4, <1>5, <2>1, CalmForm DEF Form
  <2>2. CASE ask'[u]["form"] # ask[u]["form"]
    <3>1. u = t
      BY <1>1, <1>5, <2>2
    <3>2. /\ ask[t]["form"].pc = "waiting" /\ ask'[t]["form"].what = ask[t]["form"].what
          /\ ask'[t]["form"].answer # "ok"
      BY <2>2, <3>1, RenewedFacts DEF Slots
    <3>3. ask[t]["form"].what \in Authorised
      BY <3>2, SoundParts DEF AskSound, RequestSound, Coherent, Slots
    <3>4. FormKept(tokens, password, ask[t]["form"])
      BY DEF Kept, Form
    <3>. QED BY <3>1, <3>2, <3>3, <3>4 DEF FormKept, Authorised
  <2>. QED BY <2>1, <2>2
<1>6. \A u \in Tabs : RenewKept(tokens', local', renew'[u])
  BY <1>4 DEF RenewKept, NoRenewal
<1>7. active' /\ local' # None /\ tokens'[local'].live
  BY <1>1, <1>2, <1>3 DEF Kept
<1>. QED BY <1>3, <1>5, <1>6, <1>7 DEF Kept, Form

LEMMA TakeKept ==
  ASSUME Sound, Kept, ~Crossing, NEW t \in Tabs, NEW s \in Slots, Take(t, s)
  PROVE  Kept'
<1>. DEFINE a == ask[t][s]
            b == ask'[t][s]
<1>1. UNCHANGED <<active, password, tokens, renew>> /\ Only(t, s) /\ a.pc = "answered"
  BY TakeFacts DEF server
<1>2. RenewKept(tokens, local, renew'[t]) /\ FormKept(tokens, password, Form(t))
  BY <1>1 DEF Kept
<1>3. CASE s = "background"
  <2>1. UNCHANGED <<local, session>>
    <3>1. a.what \in {"none", "poll"}
      BY <1>3, SoundParts DEF AskSound, RequestSound
    <3>. QED BY <3>1, TakeFacts
  <2>2. ask'[t]["form"] = Form(t)
    BY <1>1, <1>3, SameForm DEF Form
  <2>. QED BY <1>1, <1>2, <1>3, <2>1, <2>2, SameForm, OneKept
<1>4. ASSUME b = NoAsk \/ b.what = "me" PROVE FormKept(tokens, password, b) /\ ~Relogging(b)
  BY <1>4 DEF FormKept, Relogging, NoAsk
<1>5. CASE s = "form" /\ a.what = "login"
  <2>1. a.remember /\ a.answer = "ok" /\ a.pair # None /\ tokens[a.pair].live
    BY <1>1, <1>2, <1>5 DEF FormKept, Form
  <2>2. setTokens(t, a.pair, a.remember) /\ (b = NoAsk \/ b.what = "me")
    BY <1>5, <2>1, TakeFacts
  <2>3. local' = a.pair /\ \A u \in Tabs : session'[u] = None
    <3>1. session \in [Tabs -> Nat]
      BY DEF Sound, Shape
    <3>. QED BY <2>1, <2>2, <3>1 DEF setTokens, Kept
  <2>4. Changing(t)
    BY <1>1, <1>5 DEF Changing
  <2>5. \A u \in Tabs : renew[u] = NoRenewal /\ (u # t => ~Changing(u))
    BY <2>4, FormIsAlone
  <2>6. ASSUME NEW u \in Tabs
        PROVE  /\ RenewKept(tokens', local', renew'[u])
               /\ FormKept(tokens', password', ask'[u]["form"])
    <3>1. RenewKept(tokens', local', renew'[u])
      BY <1>1, <2>5, <2>6 DEF RenewKept, NoRenewal
    <3>2. CASE u = t
      BY <1>1, <1>4, <1>5, <2>2, <3>1, <3>2
    <3>3. CASE u # t
      <4>1. ask'[u]["form"] = Form(u)
        BY <1>1, <2>6, <3>3 DEF Only, Form, Slots
      <4>. QED BY <2>5, <2>6, <3>1, <3>3, <4>1, CalmForm
    <3>. QED BY <3>2, <3>3
  <2>7. active' /\ local' # None /\ tokens'[local'].live
    BY <1>1, <2>1, <2>3 DEF Kept
  <2>. QED BY <2>3, <2>6, <2>7 DEF Kept, Form
<1>6. CASE s = "form" /\ a.what = "patch" /\ a.answer = "ok"
  <2>1. /\ UNCHANGED <<local, session>> /\ b.what = "login" /\ b.typed = a.typed + 1
        /\ b.remember = (local # None) /\ b.pc = "sent" /\ b.answer = "none"
    BY <1>6, TakeFacts
  <2>2. FormKept(tokens, password, b) /\ Relogging(b)
    BY <1>2, <1>6, <2>1 DEF FormKept, Relogging, Form, Kept
  <2>. QED BY <1>1, <1>2, <1>6, <2>1, <2>2, OneKept DEF Only, Slots
<1>7. CASE s = "form" /\ a.what # "login" /\ ~(a.what = "patch" /\ a.answer = "ok")
  <2>1. a.what \in {"none", "me", "patch"}
    BY <1>2, <1>7 DEF FormKept, Form
  <2>2. b = NoAsk /\ UNCHANGED <<local, session>>
    BY <1>7, <2>1, TakeFacts
  <2>3. ~Relogging(Form(t))
    BY <1>7 DEF Relogging, Form
  <2>. QED BY <1>1, <1>2, <1>4, <1>7, <2>2, <2>3, OneKept DEF Only, Slots
<1>. QED BY <1>3, <1>5, <1>6, <1>7 DEF Slots

LEMMA NextKept ==
  ASSUME Sound, Steady, Kept, Remembered, ~crossed, ~Crossing', failures' = 0,
         \A n \in 1..Len(commands') : commands'[n] = "patch", [Next]_vars
  PROVE  Kept'
<1>1. ~Crossing
  BY DEF Remembered
<1>2. ASSUME NEW t \in Tabs, Client(t) PROVE Kept'
  BY <1>1, <1>2, AskingKept, RenewedKept, DeniedKept, TakeKept DEF Client
<1>3. ASSUME NEW t \in Tabs, Handler(t) PROVE Kept'
  BY <1>1, <1>3, RenewCheckKept, RenewCommitKept, CheckKept, EntryKept, CommitKept DEF Handler
<1>4. CASE UNCHANGED <<active, password, tokens, local, session, renew, ask>>
  BY <1>4 DEF Kept, Form
<1>5. CASE Environment
  <2>1. ASSUME NEW t \in Tabs, NEW s \in Slots,
               LoseRenewal(t) \/ Reload(t) \/ Lose(t, s)
        PROVE  FALSE
    BY <2>1, LoseRenewalFacts, ReloadFacts, LoseFacts
  <2>2. "form" \in Slots
    BY DEF Slots
  <2>3. Minute \/ \E pair \in Pairs : Expire(pair)
    BY <1>5, <2>1, <2>2 DEF Environment
  <2>. QED BY <1>4, <2>3 DEF Minute, Expire, server, browser
<1>6. CASE UNCHANGED vars
  BY <1>4, <1>6 DEF vars, server, browser
<1>. QED BY <1>2, <1>3, <1>5, <1>6 DEF Next

LEMMA InitKept ==
  ASSUME Init
  PROVE  Kept
<1>1. active = TRUE /\ local = 1 /\ tokens[1].live /\ \A t \in Tabs : session[t] = None
  BY DEF Init
<1>2. \A t \in Tabs : renew[t] = NoRenewal /\ Form(t) = NoAsk
  BY DEF Init, Form, Slots
<1>3. ASSUME NEW t \in Tabs
      PROVE  RenewKept(tokens, local, renew[t]) /\ FormKept(tokens, password, Form(t))
  BY <1>2, <1>3 DEF RenewKept, NoRenewal, FormKept, NoAsk
<1>. QED BY <1>1, <1>3 DEF Kept, None

(* Nothing failed or crossed, and only passwords were changed.              *)
OnlyPatches ==
  failures = 0 /\ ~crossed /\ \A n \in 1..Len(commands) : commands[n] = "patch"

KeptInv == TrackedInv /\ (OnlyPatches => Kept)

LEMMA KeptStep ==
  ASSUME KeptInv, [Next]_vars
  PROVE  KeptInv'
<1>1. TrackedInv' /\ Shape /\ Shape' /\ Sound /\ Remembered
  BY TrackedStep DEF KeptInv, TrackedInv, CalmInv, Sound
<1>2. ASSUME OnlyPatches' PROVE Kept'
  <2>1. ~crossed /\ ~Crossing /\ ~Crossing' /\ failures' = 0
        /\ \A n \in 1..Len(commands') : commands'[n] = "patch"
    BY <1>1, <1>2 DEF OnlyPatches, TrackedInv, CalmInv, Remembered, Next, vars
  <2>2. Steady
    BY <2>1 DEF KeptInv, TrackedInv, CalmInv
  <2>3. \/ UNCHANGED <<failures, commands>>
        \/ UNCHANGED failures /\ \E w : commands' = Append(commands, w)
        \/ Fail
    <3>1. ASSUME NEW t \in Tabs, Client(t) \/ Handler(t), ~Submit(t)
          PROVE  UNCHANGED <<failures, commands>>
      BY <3>1 DEF Client, Handler, Open, Poll, Renewed, Denied, Take, RenewCheck,
         RenewCommit, Check, CommitEntry, CommitExit, CommitCode, CommitPassword, CommitDelete
    <3>2. ASSUME NEW t \in Tabs, Submit(t)
          PROVE  UNCHANGED failures /\ \E w : commands' = Append(commands, w)
      BY <3>2 DEF Submit
    <3>3. CASE Environment
      BY <3>3 DEF Environment, Minute, Expire, Lose, LoseRenewal, Reload
    <3>. QED BY <3>1, <3>2, <3>3 DEF Next, vars
  <2>4. failures = 0
    BY <1>1, <2>1, <2>3 DEF Fail, Shape
  <2>5. \A n \in 1..Len(commands) : commands[n] = "patch"
    <3>1. CASE UNCHANGED commands
      BY <2>1, <3>1
    <3>2. ASSUME NEW w, commands' = Append(commands, w)
          PROVE  \A n \in 1..Len(commands) : commands[n] = "patch"
      <4>1. commands \in Seq(Whats) /\ Len(commands) \in Nat
        BY <1>1 DEF Shape
      <4>2. Len(commands') = Len(commands) + 1
            /\ \A n \in 1..Len(commands) : commands'[n] = commands[n]
        BY <3>2, <4>1
      <4>. QED BY <2>1, <4>1, <4>2
    <3>3. CASE Fail
      BY <1>1, <2>1, <3>3 DEF Fail, Shape
    <3>. QED BY <2>3, <3>1, <3>2, <3>3
  <2>. QED BY <1>1, <2>1, <2>2, <2>4, <2>5, NextKept DEF KeptInv, OnlyPatches
<1>. QED BY <1>1, <1>2 DEF KeptInv

(* restoreSession, saveProfile and refreshAccessToken: a tab that shows the *)
(* application and waits for nothing can renew its session.                 *)
THEOREM SessionIsAlwaysKept == Spec => []SessionIsKept
<1>1. Init => KeptInv
  BY InitSound, InitSteady, InitTracked, InitKept DEF KeptInv, TrackedInv, CalmInv, Remembered
<1>2. KeptInv /\ [Next]_vars => KeptInv'
  BY KeptStep
<1>3. KeptInv => SessionIsKept
  <2>1. SUFFICES ASSUME KeptInv, NEW t \in Tabs, \A u \in Tabs : Quiet(u), failures = 0, ~crossed,
                        Range(commands) \subseteq {"patch"}
                 PROVE  Stored(t) # None /\ tokens[Stored(t)].live
    BY DEF SessionIsKept
  <2>2. Shape
    BY <2>1 DEF KeptInv, TrackedInv, CalmInv, Sound
  <2>3. OnlyPatches
    <3>1. DOMAIN commands = 1..Len(commands)
      BY <2>2 DEF Shape
    <3>2. ASSUME NEW n \in 1..Len(commands) PROVE commands[n] = "patch"
      <4>1. commands[n] \in Range(commands)
        BY <3>1, <3>2 DEF Range
      <4>. QED BY <2>1, <4>1
    <3>. QED BY <2>1, <3>2 DEF OnlyPatches
  <2>4. Kept
    BY <2>1, <2>3 DEF KeptInv
  <2>5. ASSUME NEW u \in Tabs PROVE ~Relogging(Form(u)) /\ renew[u].answer = None
    BY <2>1, <2>5 DEF Quiet, Idle, Relogging, Form, NoAsk, NoRenewal, Slots
  <2>. QED BY <2>4, <2>5 DEF Kept, Stored
<1>. QED BY <1>1, <1>2, <1>3, PTL DEF Spec
=============================================================================
