-------------------------- MODULE Accounts_proofs --------------------------
(***************************************************************************)
(* What holds of accounts for any number of users, rows, requests in       *)
(* flight and addresses.  A step begins a request (Begins), takes it on    *)
(* (Goes), commits it (Commits) or drops it (Ends); the invariants only    *)
(* ask which of these it is.  Identities and switches are safe however     *)
(* requests overlap.  Credentials, verified addresses and the referrer's   *)
(* count go wrong in one way alone, which crossed records: a request       *)
(* commits on values that another has changed since it loaded them.        *)
(***************************************************************************)
EXTENDS Accounts, FiniteSetTheorems, TLAPS

LEMMA MergedCells ==
    ASSUME NEW row \in Rows, NEW view \in Rows, NEW new \in Rows
    PROVE  /\ Merged(row, view, new) \in Rows
           /\ \A col \in DOMAIN Blank :
                Merged(row, view, new)[col] = IF new[col] # view[col] THEN new[col] ELSE row[col]
<1>1. DOMAIN row = DOMAIN Blank
  BY DEF Rows, Blank
<1>2. \A col \in DOMAIN Blank :
         Merged(row, view, new)[col] = IF new[col] # view[col] THEN new[col] ELSE row[col]
  BY <1>1 DEF Merged
<1>3. Merged(row, view, new) \in Rows
  <2> DEFINE m == Merged(row, view, new)
  <2>1. m = [col \in DOMAIN Blank |-> m[col]]
    BY <1>1 DEF Merged
  <2>2. DOMAIN Blank = {"there", "email", "verified", "code", "password", "reset", "wallet", "agent",
                        "key", "secret", "testnet", "bot", "chat", "active", "admin", "referred"}
    BY DEF Blank
  <2>3. /\ m.there \in BOOLEAN /\ m.email \in Emails \union {""} /\ m.verified \in BOOLEAN
        /\ m.code \in Codes
    BY <1>2, <2>2 DEF Rows
  <2>4. /\ m.password \in {0} \union Numbers /\ m.reset \in {0} \union Numbers
        /\ m.wallet \in {0} \union Numbers \union Wallets /\ m.agent \in {0} \union Numbers
    BY <1>2, <2>2 DEF Rows
  <2>5. /\ m.key \in Keys /\ m.secret \in Keys /\ m.testnet \in BOOLEAN
        /\ m.bot \in Bots /\ m.chat \in {0} \union Chats
    BY <1>2, <2>2 DEF Rows
  <2>6. m.active \in BOOLEAN /\ m.admin \in BOOLEAN /\ m.referred \in BOOLEAN
    BY <1>2, <2>2 DEF Rows
  <2> QED
    BY <2>1, <2>2, <2>3, <2>4, <2>5, <2>6 DEF Rows
<1> QED
  BY <1>2, <1>3

LEMMA Bounds == MaxRequests \in Nat /\ 1 \in Numbers /\ 0 \in 0..MaxRequests
<1>1. MaxRequests \in Nat /\ MaxRequests # 0
  BY AccountConstants
<1> QED
  BY <1>1 DEF Numbers

LEMMA BlankType == Blank \in Rows
<1>1. << >> \in Codes /\ << >> \in Keys /\ << >> \in Bots
  BY DEF Codes, Keys, Bots
<1> QED
  BY <1>1 DEF Blank, Rows

LEMMA IdleType == Idle \in Requests
<1>1. First \in Users
  BY AccountConstants DEF First
<1> QED
  BY <1>1, Bounds, BlankType DEF Idle, Requests, Stages, Kinds

LEMMA InitType == Init => TypeOK
<1> SUFFICES ASSUME Init PROVE TypeOK
  OBVIOUS
<1> DEFINE e == CHOOSE e \in Emails : TRUE
<1>1. e \in Emails /\ 1 \in Numbers
  BY AccountConstants, Bounds
<1> HIDE DEF e
<1>2. users \in [Users -> Rows]
  <2>1. CASE column = "free"
    <3>1. [Blank EXCEPT !.there = TRUE, !.email = e, !.password = 1, !.code = <<1, e>>] \in Rows
      BY <1>1, BlankType DEF Rows, Codes
    <3> QED
      BY <2>1, <3>1, BlankType DEF Init, e
  <2>2. CASE column # "free"
    <3>1. [Blank EXCEPT !.there = TRUE, !.wallet = 1, !.agent = 1] \in Rows
      BY <1>1, BlankType DEF Rows
    <3> QED
      BY <2>2, <3>1, BlankType DEF Init
  <2> QED
    BY <2>1, <2>2
<1>3. request \in [Clients -> Requests]
  BY IdleType DEF Init
<1>4. referrals \in Nat /\ column \in CodeColumns /\ made \in 0..MaxRequests
  <2>1. referrals = 0 /\ column \in CodeColumns /\ made = 1
    BY DEF Init
  <2> QED
    BY <2>1, Bounds DEF Numbers
<1> QED
  <2>1. proven = {} /\ lost = {}
    BY DEF Init
  <2> QED
    BY <1>2, <1>3, <1>4, <2>1 DEF TypeOK, Init

-----------------------------------------------------------------------------
(***************************************************************************)
(* How requests begin.                                                     *)
(***************************************************************************)

SameKeys(r, s) == r.key = s.key /\ r.secret = s.secret /\ r.testnet = s.testnet

SameBot(r, s) == r.bot = s.bot /\ r.chat = s.chat

\* What a request makes of the row it has loaded: of the columns the properties
\* ask about it changes those of its own matter, and leaves them whole.
Edit(kind, view, new) ==
    /\ new.there
    /\ kind # "admin" => new.active = view.active /\ new.admin = view.admin
    /\ IF kind = "keys" THEN KeysMatch(new) ELSE SameKeys(new, view)
    /\ IF kind = "telegram" THEN BotMatches(new) ELSE SameBot(new, view)
    /\ kind \notin {"submit", "verify", "register"} => new.verified = view.verified /\ new.code = view.code
    /\ kind \notin {"submit", "register", "admin"} => new.email = view.email
    /\ kind \in {"submit", "register"} => ~new.verified /\ (new.code = << >> \/ new.code[2] = new.email)
    /\ kind = "admin" => new.email = view.email \/ new.email \in Emails
    /\ kind = "verify" => view.code # << >>
    /\ kind = "register" => new.email \in Emails /\ ~view.there

Alone(c, u) == \A d \in Clients \ {c} : Open(d) => request[d].user # u

Begins(c, q) ==
    /\ ~Open(c) /\ q \in Requests /\ q.stage = "loaded" /\ request' = [request EXCEPT ![c] = q]
    /\ made' \in 0..MaxRequests /\ UNCHANGED <<users, referrals, column, proven, behind, crossed>>
    /\ lost' \subseteq lost
    /\ Edit(q.kind, q.view, q.new) /\ q.new.referred = q.view.referred /\ q.no \in Numbers
    /\ \/ users[q.user].there /\ q.view = users[q.user] /\ ~q.code
       \/ ~users[q.user].there /\ q.view = Blank /\ q.kind # "admin" /\ Alone(c, q.user)
    /\ q.code => q.kind \in {"register", "generate"}

LEMMA LoadBegins ==
    ASSUME TypeOK, NEW c \in Clients, NEW kind \in Kinds, NEW u \in Users, NEW new \in Rows,
           Load(c, kind, u, new), users[u].there,
           Edit(kind, users[u], new), new.referred = users[u].referred
    PROVE  \E q : Begins(c, q)
<1> DEFINE q == [stage |-> "loaded", kind |-> kind, user |-> u, no |-> fresh,
                 view |-> users[u], new |-> new, code |-> FALSE, seen |-> 0]
<1>1. fresh \in 0..MaxRequests /\ made' \in 0..MaxRequests /\ fresh \in Numbers
  BY Bounds DEF Load, fresh, TypeOK, Numbers
<1>2. q \in Requests
  BY <1>1 DEF Requests, Stages, TypeOK
<1>3. /\ q.stage = "loaded" /\ q.kind = kind /\ q.user = u /\ q.view = users[u] /\ q.new = new
      /\ q.code = FALSE /\ q.no = fresh
  OBVIOUS
<1>4. ~Open(c) /\ request' = [request EXCEPT ![c] = q] /\ UNCHANGED <<users, referrals, column, proven, lost, behind, crossed>>
  BY DEF Load
<1> HIDE DEF q
<1> QED
  BY <1>1, <1>2, <1>3, <1>4 DEF Begins

LEMMA CreateBegins ==
    ASSUME TypeOK, NEW c \in Clients, NEW kind \in Kinds \ {"admin"}, NEW u \in Users,
           NEW new \in Rows, NEW code \in BOOLEAN, Create(c, kind, u, new, code),
           Edit(kind, Blank, new), new.referred = FALSE, code => kind \in {"register", "generate"}
    PROVE  \E q : Begins(c, q)
<1> DEFINE q == [stage |-> "loaded", kind |-> kind, user |-> u, no |-> fresh,
                 view |-> Blank, new |-> new, code |-> code, seen |-> 0]
<1>1. fresh \in 0..MaxRequests /\ made' \in 0..MaxRequests /\ fresh \in Numbers
  BY Bounds DEF Create, fresh, TypeOK, Numbers
<1>2. q \in Requests
  BY <1>1, BlankType DEF Requests, Stages
<1>3. /\ q.stage = "loaded" /\ q.kind = kind /\ q.user = u /\ q.view = Blank /\ q.new = new
      /\ q.code = code /\ q.no = fresh
  OBVIOUS
<1>4. /\ ~Open(c) /\ request' = [request EXCEPT ![c] = q]
      /\ UNCHANGED <<users, referrals, column, proven, behind, crossed>> /\ lost' \subseteq lost
  BY DEF Create
<1>5. ~users[u].there /\ Alone(c, u)
  BY DEF Create, Room, Free, Alone
<1>6. Blank.referred = FALSE
  BY DEF Blank
<1> HIDE DEF q
<1> QED
  BY <1>1, <1>2, <1>3, <1>4, <1>5, <1>6 DEF Begins

LEMMA ArriveBegins == ASSUME TypeOK, NEW c \in Clients, Arrive(c) PROVE \E q : Begins(c, q)
<1> USE DEF Kinds
<1>F. fresh \in Numbers \/ \A k, u, new, code : ~Load(c, k, u, new) /\ ~Create(c, k, u, new, code)
  BY Bounds DEF Load, Create, fresh, TypeOK, Numbers
<1>B. /\ Blank.active = TRUE /\ Blank.admin = FALSE /\ Blank.referred = FALSE
      /\ Blank.verified = FALSE /\ Blank.code = << >> /\ Blank.there = FALSE
  BY DEF Blank
<1>1. ASSUME NEW u \in Users, NEW e \in Emails, NEW code \in BOOLEAN, Register(c, u, e, code)
      PROVE  \E q : Begins(c, q)
  <2> DEFINE new == [Blank EXCEPT !.there = TRUE, !.email = e, !.password = fresh]
  <2>1. new \in Rows
    BY <1>1, <1>F, BlankType DEF Register, Rows
  <2>2. Edit("register", Blank, new) /\ new.referred = FALSE
    BY <1>B, BlankType DEF Edit, Rows, KeysMatch, BotMatches, SameKeys, SameBot
  <2> QED
    BY <1>1, <2>1, <2>2, CreateBegins DEF Register
<1>2. ASSUME NEW u \in Users, NEW code \in BOOLEAN, GenerateWallet(c, u, code)
      PROVE  \E q : Begins(c, q)
  <2> DEFINE new == [Blank EXCEPT !.there = TRUE, !.wallet = fresh, !.agent = fresh]
  <2>1. new \in Rows
    BY <1>2, <1>F, BlankType DEF GenerateWallet, Rows
  <2>2. Edit("generate", Blank, new) /\ new.referred = FALSE
    BY <1>B, BlankType DEF Edit, Rows, KeysMatch, BotMatches, SameKeys, SameBot
  <2> QED
    BY <1>2, <2>1, <2>2, CreateBegins DEF GenerateWallet
<1>3. ASSUME NEW u \in Users, NEW w \in Wallets, SignInWithWallet(c, u, w), ~users[u].there
      PROVE  \E q : Begins(c, q)
  <2> DEFINE new == [Blank EXCEPT !.there = TRUE, !.wallet = w, !.agent = fresh]
  <2>1. new \in Rows
    BY <1>3, <1>F, BlankType DEF SignInWithWallet, Rows
  <2>2. Edit("signin", Blank, new) /\ new.referred = FALSE
    BY <1>B, BlankType DEF Edit, Rows, KeysMatch, BotMatches, SameKeys, SameBot
  <2> QED
    BY <1>3, <2>1, <2>2, CreateBegins DEF SignInWithWallet
<1>5. ASSUME NEW u \in Users, NEW w \in Wallets, ConnectWallet(c, u, w)
      PROVE  \E q : Begins(c, q)
  <2> DEFINE new == [users[u] EXCEPT !.wallet = w, !.agent = fresh]
  <2>1. users[u].there /\ Load(c, "wallet", u, new)
    BY <1>5 DEF ConnectWallet
  <2>2. users[u] \in Rows /\ fresh \in Numbers
    BY <1>F, <2>1 DEF TypeOK
  <2>3. new \in Rows
    BY <2>2 DEF Rows
  <2>4. Edit("wallet", users[u], new) /\ new.referred = users[u].referred
    BY <2>1, <2>2 DEF Edit, Rows, KeysMatch, BotMatches, SameKeys, SameBot
  <2> QED
    BY <2>1, <2>3, <2>4, LoadBegins
<1>6. ASSUME NEW u \in Users, NEW w \in Wallets, SignInWithWallet(c, u, w), users[u].there
      PROVE  \E q : Begins(c, q)
  <2> DEFINE new == [users[u] EXCEPT !.agent = fresh]
  <2>1. users[u].there /\ Load(c, "signin", u, new)
    BY <1>6 DEF SignInWithWallet, Create, Room, Free
  <2>2. users[u] \in Rows /\ fresh \in Numbers
    BY <1>F, <2>1 DEF TypeOK
  <2>3. new \in Rows
    BY <2>2 DEF Rows
  <2>4. Edit("signin", users[u], new) /\ new.referred = users[u].referred
    BY <2>1, <2>2 DEF Edit, Rows, KeysMatch, BotMatches, SameKeys, SameBot
  <2> QED
    BY <2>1, <2>3, <2>4, LoadBegins
<1>7. ASSUME NEW u \in Users, NEW e \in Emails, SubmitEmail(c, u, e)
      PROVE  \E q : Begins(c, q)
  <2> DEFINE new == [users[u] EXCEPT !.email = e, !.verified = FALSE, !.code = <<fresh, e>>]
  <2>1. users[u].there /\ Load(c, "submit", u, new)
    BY <1>7 DEF SubmitEmail, Authenticated
  <2>2. users[u] \in Rows /\ fresh \in Numbers
    BY <1>F, <2>1 DEF TypeOK
  <2>3. new \in Rows
    <3>1. << >> \in Codes /\ \A n \in Numbers, a \in Emails : <<n, a>> \in Codes
      BY DEF Codes
    <3> QED
      BY <2>2, <3>1 DEF Rows
  <2>4. Edit("submit", users[u], new) /\ new.referred = users[u].referred
    BY <2>1, <2>2 DEF Edit, Rows, KeysMatch, BotMatches, SameKeys, SameBot
  <2> QED
    BY <2>1, <2>3, <2>4, LoadBegins
<1>8. ASSUME NEW u \in Users, VerifyEmail(c, u)
      PROVE  \E q : Begins(c, q)
  <2> DEFINE new == [users[u] EXCEPT !.verified = TRUE, !.code = << >>]
  <2>1. users[u].there /\ Load(c, "verify", u, new)
    BY <1>8 DEF VerifyEmail, Authenticated
  <2>2. users[u] \in Rows /\ fresh \in Numbers
    BY <1>F, <2>1 DEF TypeOK
  <2>3. new \in Rows
    <3>1. << >> \in Codes /\ \A n \in Numbers, a \in Emails : <<n, a>> \in Codes
      BY DEF Codes
    <3> QED
      BY <2>2, <3>1 DEF Rows
  <2>4. Edit("verify", users[u], new) /\ new.referred = users[u].referred
    BY <1>8, <2>1, <2>2 DEF VerifyEmail, Edit, Rows, KeysMatch, BotMatches, SameKeys, SameBot
  <2> QED
    BY <2>1, <2>3, <2>4, LoadBegins
<1>9. ASSUME NEW u \in Users, ForgotPassword(c, u)
      PROVE  \E q : Begins(c, q)
  <2> DEFINE new == [users[u] EXCEPT !.reset = fresh]
  <2>1. users[u].there /\ Load(c, "forgot", u, new)
    BY <1>9 DEF ForgotPassword
  <2>2. users[u] \in Rows /\ fresh \in Numbers
    BY <1>F, <2>1 DEF TypeOK
  <2>3. new \in Rows
    BY <2>2 DEF Rows
  <2>4. Edit("forgot", users[u], new) /\ new.referred = users[u].referred
    BY <2>1, <2>2 DEF Edit, Rows, KeysMatch, BotMatches, SameKeys, SameBot
  <2> QED
    BY <2>1, <2>3, <2>4, LoadBegins
<1>10. ASSUME NEW u \in Users, ResetPassword(c, u)
      PROVE  \E q : Begins(c, q)
  <2> DEFINE new == [users[u] EXCEPT !.password = fresh, !.reset = 0]
  <2>1. users[u].there /\ Load(c, "reset", u, new)
    BY <1>10 DEF ResetPassword, Authenticated
  <2>2. users[u] \in Rows /\ fresh \in Numbers
    BY <1>F, <2>1 DEF TypeOK
  <2>3. new \in Rows
    BY <2>2 DEF Rows
  <2>4. Edit("reset", users[u], new) /\ new.referred = users[u].referred
    BY <2>1, <2>2 DEF Edit, Rows, KeysMatch, BotMatches, SameKeys, SameBot
  <2> QED
    BY <2>1, <2>3, <2>4, LoadBegins
<1>11. ASSUME NEW u \in Users, NEW net \in BOOLEAN, ConnectExchange(c, u, net)
      PROVE  \E q : Begins(c, q)
  <2> DEFINE new == [users[u] EXCEPT !.key = <<fresh, net>>, !.secret = <<fresh, net>>, !.testnet = net]
  <2>1. users[u].there /\ Load(c, "keys", u, new)
    BY <1>11 DEF ConnectExchange, Authenticated
  <2>2. users[u] \in Rows /\ fresh \in Numbers
    BY <1>F, <2>1 DEF TypeOK
  <2>3. new \in Rows
    <3>1. << >> \in Keys /\ \A n \in Numbers, b \in BOOLEAN : <<n, b>> \in Keys
      BY DEF Keys
    <3> QED
      BY <2>2, <3>1 DEF Rows
  <2>4. Edit("keys", users[u], new) /\ new.referred = users[u].referred
    BY <2>1, <2>2 DEF Edit, Rows, KeysMatch, BotMatches, SameKeys, SameBot
  <2> QED
    BY <2>1, <2>3, <2>4, LoadBegins
<1>12. ASSUME NEW u \in Users, DisconnectExchange(c, u)
      PROVE  \E q : Begins(c, q)
  <2> DEFINE new == [users[u] EXCEPT !.key = << >>, !.secret = << >>, !.testnet = FALSE]
  <2>1. users[u].there /\ Load(c, "keys", u, new)
    BY <1>12 DEF DisconnectExchange, Authenticated
  <2>2. users[u] \in Rows /\ fresh \in Numbers
    BY <1>F, <2>1 DEF TypeOK
  <2>3. new \in Rows
    <3>1. << >> \in Keys /\ \A n \in Numbers, b \in BOOLEAN : <<n, b>> \in Keys
      BY DEF Keys
    <3> QED
      BY <2>2, <3>1 DEF Rows
  <2>4. Edit("keys", users[u], new) /\ new.referred = users[u].referred
    BY <2>1, <2>2 DEF Edit, Rows, KeysMatch, BotMatches, SameKeys, SameBot
  <2> QED
    BY <2>1, <2>3, <2>4, LoadBegins
<1>13. ASSUME NEW u \in Users, NEW chat \in Chats, SaveTelegram(c, u, chat)
      PROVE  \E q : Begins(c, q)
  <2> DEFINE new == [users[u] EXCEPT !.bot = <<fresh, chat>>, !.chat = chat]
  <2>1. users[u].there /\ Load(c, "telegram", u, new)
    BY <1>13 DEF SaveTelegram, Authenticated
  <2>2. users[u] \in Rows /\ fresh \in Numbers
    BY <1>F, <2>1 DEF TypeOK
  <2>3. new \in Rows
    <3>1. << >> \in Bots /\ \A n \in Numbers, t \in Chats : <<n, t>> \in Bots
      BY DEF Bots
    <3> QED
      BY <2>2, <3>1 DEF Rows
  <2>4. Edit("telegram", users[u], new) /\ new.referred = users[u].referred
    BY <2>1, <2>2 DEF Edit, Rows, KeysMatch, BotMatches, SameKeys, SameBot
  <2> QED
    BY <2>1, <2>3, <2>4, LoadBegins
<1>14. ASSUME NEW u \in Users, RemoveTelegram(c, u)
      PROVE  \E q : Begins(c, q)
  <2> DEFINE new == [users[u] EXCEPT !.bot = << >>, !.chat = 0]
  <2>1. users[u].there /\ Load(c, "telegram", u, new)
    BY <1>14 DEF RemoveTelegram, Authenticated
  <2>2. users[u] \in Rows /\ fresh \in Numbers
    BY <1>F, <2>1 DEF TypeOK
  <2>3. new \in Rows
    <3>1. << >> \in Bots /\ \A n \in Numbers, t \in Chats : <<n, t>> \in Bots
      BY DEF Bots
    <3> QED
      BY <2>2, <3>1 DEF Rows
  <2>4. Edit("telegram", users[u], new) /\ new.referred = users[u].referred
    BY <2>1, <2>2 DEF Edit, Rows, KeysMatch, BotMatches, SameKeys, SameBot
  <2> QED
    BY <2>1, <2>3, <2>4, LoadBegins
<1>15. ASSUME NEW u \in Users, Administrate(c, u) PROVE \E q : Begins(c, q)
  <2>1. PICK new : /\ users[u].there /\ Load(c, "admin", u, new)
                   /\ \/ new = [users[u] EXCEPT !.admin = ~users[u].admin]
                      \/ new = [users[u] EXCEPT !.active = ~users[u].active]
                      \/ \E e \in Emails : new = [users[u] EXCEPT !.email = e]
    BY <1>15 DEF Administrate
  <2>2. users[u] \in Rows
    BY DEF TypeOK
  <2>3. new \in Rows
    BY <2>1, <2>2 DEF Rows
  <2>4. Edit("admin", users[u], new) /\ new.referred = users[u].referred
    BY <2>1, <2>2 DEF Edit, Rows, SameKeys, SameBot
  <2> QED
    BY <2>1, <2>3, <2>4, LoadBegins
<1> QED
  BY <1>1, <1>2, <1>3, <1>5, <1>6, <1>7, <1>8, <1>9, <1>10, <1>11, <1>12, <1>13, <1>14, <1>15 DEF Arrive

-----------------------------------------------------------------------------
(***************************************************************************)
(* How requests go on, and how they end.                                   *)
(***************************************************************************)

\* A signup with a code attaches the new account from AttachReferral on.
CountOK(q) ==
    /\ q.code => q.kind \in {"register", "generate"}
    /\ q.stage \in {"found", "attached"} => q.code
    /\ q.code => (q.new.referred <=> q.stage \in {"attached", "written", "answered"})
    /\ ~q.code => q.new.referred = q.view.referred

Goes(c, q) ==
    /\ Open(c) /\ q \in Requests /\ q.stage # "idle" /\ request' = [request EXCEPT ![c] = q]
    /\ UNCHANGED <<users, referrals, column, made, proven, lost, behind, crossed>>
    /\ q.kind = request[c].kind /\ q.user = request[c].user /\ q.view = request[c].view
    /\ q.code = request[c].code /\ q.no = request[c].no
    /\ Edit(q.kind, q.view, request[c].new) => Edit(q.kind, q.view, q.new)
    /\ CountOK(request[c]) =>
          /\ CountOK(q)
          /\ Counting(q) => q.seen = referrals \/ (Counting(request[c]) /\ q.seen = request[c].seen)

Ends(c) ==
    /\ request' = [request EXCEPT ![c] = Idle] /\ lost' \subseteq Users /\ behind' = behind \ {c}
    /\ UNCHANGED <<users, referrals, column, made, proven, crossed>>

Commits(c) ==
    LET q == request[c]
    IN  /\ Open(c) /\ q.stage = "answered" /\ ~Taken(q)
        /\ users' = [users EXCEPT ![q.user] = Merged(users[q.user], q.view, q.new)]
        /\ referrals' = IF q.new.referred /\ ~q.view.referred THEN q.seen + 1 ELSE referrals
        /\ proven' = proven \union
               (IF q.kind = "verify" THEN {<<q.user, q.view.code[2]>>}
                ELSE IF q.kind = "admin" /\ q.new.email # q.view.email THEN {<<q.user, q.new.email>>}
                ELSE {})
        /\ request' = [request EXCEPT ![c] = Idle] /\ Cross(c)
        /\ UNCHANGED <<column, made, lost>>

LEMMA FlushGoes == ASSUME TypeOK, NEW c \in Clients, Flush(c) PROVE Ends(c) \/ \E q : Goes(c, q)
<1> DEFINE old == request[c]
           q == [old EXCEPT !.stage = Onward(old)]
<1>1. CASE Taken(old) \/ TooLong(old)
  BY <1>1 DEF Flush, Rollback, Ends, rest, TypeOK
<1>2. CASE ~(Taken(old) \/ TooLong(old))
  <2>1. request' = [request EXCEPT ![c] = q]
    BY <1>2 DEF Flush, To
  <2>2. old \in Requests /\ old.stage = "loaded" /\ Onward(old) \in Stages \ {"idle"}
    BY DEF Flush, TypeOK, Onward, Stages
  <2>3. q \in Requests /\ q.stage = Onward(old)
    BY <2>2 DEF Requests
  <2>4. /\ q.kind = old.kind /\ q.user = old.user /\ q.view = old.view /\ q.code = old.code
        /\ q.new = old.new /\ q.seen = old.seen /\ q.no = old.no
    BY <2>2 DEF Requests
  <2> HIDE DEF q
  <2>5. CountOK(old) => CountOK(q) /\ (Counting(q) => Counting(old))
    BY <2>2, <2>3, <2>4 DEF CountOK, Counting, Onward
  <2>6. UNCHANGED <<users, referrals, column, made, proven, lost, behind, crossed>>
    BY <1>2 DEF Flush, To, rest
  <2> QED
    BY <2>1, <2>2, <2>3, <2>4, <2>5, <2>6 DEF Goes, Open
<1> QED
  BY <1>1, <1>2

LEMMA ReferralGoes ==
    ASSUME TypeOK, NEW c \in Clients, FindReferrer(c) \/ AttachReferral(c) PROVE \E q : Goes(c, q)
<1> DEFINE old == request[c]
<1>0. old \in Requests
  BY DEF TypeOK
<1>1. ASSUME FindReferrer(c) PROVE \E q : Goes(c, q)
  <2> DEFINE q == [old EXCEPT !.stage = "found", !.seen = referrals]
  <2>1. request' = [request EXCEPT ![c] = q]
    BY <1>0, <1>1 DEF FindReferrer, TypeOK
  <2>2. q \in Requests /\ q.stage = "found" /\ q.seen = referrals
    BY <1>0 DEF Requests, Stages, TypeOK
  <2>3. /\ q.kind = old.kind /\ q.user = old.user /\ q.view = old.view /\ q.code = old.code
        /\ q.new = old.new /\ q.no = old.no
    BY <1>0 DEF Requests
  <2> HIDE DEF q
  <2>4. CountOK(old) => CountOK(q)
    BY <1>1, <2>2, <2>3 DEF CountOK, FindReferrer
  <2> QED
    BY <1>1, <2>1, <2>2, <2>3, <2>4 DEF FindReferrer, Goes, Open, rest
<1>2. ASSUME AttachReferral(c) PROVE \E q : Goes(c, q)
  <2> DEFINE new == [old.new EXCEPT !.referred = TRUE]
             q == [old EXCEPT !.stage = "attached", !.new = new]
  <2>1. request' = [request EXCEPT ![c] = q]
    BY <1>0, <1>2 DEF AttachReferral, TypeOK, Requests
  <2>2. old.new \in Rows
    BY <1>0 DEF Requests
  <2>3. /\ new \in Rows /\ new.referred = TRUE
        /\ SameKeys(new, old.new) /\ SameBot(new, old.new)
        /\ new.email = old.new.email /\ new.verified = old.new.verified /\ new.code = old.new.code
        /\ new.there = old.new.there /\ new.active = old.new.active /\ new.admin = old.new.admin
    BY <2>2 DEF Rows, SameKeys, SameBot
  <2> HIDE DEF new
  <2>4. q \in Requests /\ q.stage = "attached" /\ q.new = new
    BY <1>0, <2>3 DEF Requests, Stages
  <2>5. /\ q.kind = old.kind /\ q.user = old.user /\ q.view = old.view /\ q.code = old.code
        /\ q.seen = old.seen /\ q.no = old.no
    BY <1>0 DEF Requests
  <2> HIDE DEF q
  <2>6. CountOK(old) => CountOK(q) /\ (Counting(q) => Counting(old))
    BY <1>2, <2>3, <2>4, <2>5 DEF CountOK, Counting, AttachReferral
  <2>7. Edit(q.kind, q.view, old.new) => Edit(q.kind, q.view, q.new)
    BY <2>3, <2>4 DEF Edit, KeysMatch, BotMatches, SameKeys, SameBot
  <2> QED
    BY <1>2, <2>1, <2>4, <2>5, <2>6, <2>7 DEF AttachReferral, Goes, Open, rest
<1> QED
  BY <1>1, <1>2

LEMMA SendCodeGoes ==
    ASSUME TypeOK, NEW c \in Clients, SendCode(c), request[c].no \in Numbers,
           Edit(request[c].kind, request[c].view, request[c].new)
    PROVE  Ends(c) \/ \E q : Goes(c, q)
<1> DEFINE old == request[c]
           new == IF old.kind = "register" THEN [old.new EXCEPT !.code = <<old.no, old.new.email>>]
                                           ELSE old.new
           q == [old EXCEPT !.stage = "written", !.new = new]
<1>0. old \in Requests /\ old.new \in Rows
  BY DEF TypeOK, Requests
<1>1. /\ old.stage = IF old.code THEN "attached" ELSE "inserted"
      /\ IF TooLong([old EXCEPT !.new = new]) THEN Rollback(c)
         ELSE request' = [request EXCEPT ![c].stage = "written", ![c].new = new] /\ UNCHANGED behind
      /\ UNCHANGED rest
  BY DEF SendCode
<1>2. /\ new \in Rows /\ new.referred = old.new.referred
      /\ SameKeys(new, old.new) /\ SameBot(new, old.new)
      /\ new.there = old.new.there /\ new.active = old.new.active /\ new.admin = old.new.admin
      /\ new.verified = old.new.verified /\ new.email = old.new.email
      /\ IF old.kind = "register" THEN new.code = <<old.no, old.new.email>> ELSE new.code = old.new.code
  <2>1. CASE old.kind = "register"
    <3>1. <<old.no, old.new.email>> \in Codes
      BY <2>1 DEF Edit, Codes
    <3>2. new = [old.new EXCEPT !.code = <<old.no, old.new.email>>]
      BY <2>1
    <3> QED
      BY <1>0, <2>1, <3>1, <3>2 DEF Rows, SameKeys, SameBot
  <2>2. CASE old.kind # "register"
    BY <1>0, <2>2 DEF SameKeys, SameBot
  <2> QED
    BY <2>1, <2>2
<1> HIDE DEF new
<1>3. CASE TooLong([old EXCEPT !.new = new])
  BY <1>1, <1>3 DEF Rollback, Ends, rest, TypeOK
<1>4. CASE ~TooLong([old EXCEPT !.new = new])
  <2>1. request' = [request EXCEPT ![c] = q]
    BY <1>0, <1>1, <1>4 DEF TypeOK, Requests
  <2>2. q \in Requests /\ q.stage = "written" /\ q.new = new
    BY <1>0, <1>2 DEF Requests, Stages
  <2>3. /\ q.kind = old.kind /\ q.user = old.user /\ q.view = old.view /\ q.code = old.code
        /\ q.seen = old.seen /\ q.no = old.no
    BY <1>0 DEF Requests
  <2> HIDE DEF q
  <2>4. CountOK(old) => CountOK(q) /\ (Counting(q) => Counting(old))
    BY <1>1, <1>2, <2>2, <2>3 DEF CountOK, Counting
  <2>5. Edit(q.kind, q.view, old.new) => Edit(q.kind, q.view, q.new)
    <3>1. CASE old.kind = "register"
      <4>1. new.code[2] = new.email
        BY <1>2, <3>1
      <4> QED
        BY <1>2, <2>2, <2>3, <3>1, <4>1 DEF Edit, SameKeys, SameBot
    <3>2. CASE old.kind # "register"
      BY <2>2, <3>2 DEF new
    <3> QED
      BY <3>1, <3>2
  <2> QED
    BY <1>1, <1>4, <2>1, <2>2, <2>3, <2>4, <2>5 DEF Goes, Open, rest
<1> QED
  BY <1>3, <1>4

LEMMA Proceeds ==
    ASSUME TypeOK, NEW c \in Clients, Proceed(c) \/ Die(c),
           Open(c) => /\ request[c].no \in Numbers
                      /\ Edit(request[c].kind, request[c].view, request[c].new)
    PROVE  Ends(c) \/ Commits(c) \/ \E q : Goes(c, q)
<1>0. request[c] \in Requests
  BY DEF TypeOK
<1>1. ASSUME Refuse(c) \/ Die(c) PROVE Ends(c)
  BY <1>0, <1>1 DEF Refuse, Die, Rollback, Ends, rest, TypeOK, Requests
<1>2. ASSUME Answer(c) PROVE \E q : Goes(c, q)
  <2> DEFINE old == request[c]
             q == [old EXCEPT !.stage = "answered"]
  <2>1. request' = [request EXCEPT ![c] = q]
    BY <1>2 DEF Answer, To
  <2>2. q \in Requests /\ q.stage = "answered"
    BY <1>0 DEF Requests, Stages
  <2>3. /\ q.kind = old.kind /\ q.user = old.user /\ q.view = old.view /\ q.code = old.code
        /\ q.new = old.new /\ q.seen = old.seen /\ q.no = old.no
    BY <1>0 DEF Requests
  <2> HIDE DEF q
  <2>4. CountOK(old) => CountOK(q) /\ (Counting(q) => Counting(old))
    BY <1>2, <2>2, <2>3 DEF CountOK, Counting, Answer
  <2> QED
    BY <1>2, <2>1, <2>2, <2>3, <2>4 DEF Answer, To, Goes, Open, rest
<1>3. ASSUME Commit(c) PROVE Commits(c) \/ Ends(c)
  <2>1. CASE Taken(request[c])
    BY <1>3, <2>1 DEF Commit, Ends, TypeOK
  <2>2. CASE ~Taken(request[c])
    BY <1>3, <2>2 DEF Commit, Commits, Open
  <2> QED
    BY <2>1, <2>2
<1>4. ASSUME SendCode(c) PROVE Ends(c) \/ \E q : Goes(c, q)
  <2>1. Open(c)
    BY <1>4 DEF SendCode, Open
  <2> QED
    BY <1>4, <2>1, SendCodeGoes
<1> QED
  BY <1>1, <1>2, <1>3, <1>4, FlushGoes, ReferralGoes DEF Proceed

-----------------------------------------------------------------------------
(***************************************************************************)
(* Type correctness, and what an open session may rely on.                 *)
(***************************************************************************)

\* A signup has its row to itself; who works on a row that is there may find
\* others at it, but not the row gone.
Owned(c) ==
    LET q == request[c]
    IN  \/ users[q.user].there /\ q.view.there /\ ~q.code
        \/ ~users[q.user].there /\ q.view = Blank /\ q.kind # "admin" /\ Alone(c, q.user)

SessionOK(c) ==
    request[c].no \in Numbers /\ Edit(request[c].kind, request[c].view, request[c].new) /\ Owned(c)

Sessions ==
    /\ \A u \in Users : users[u].there \/ users[u] = Blank
    /\ \A c \in behind : Open(c)
    /\ \A c \in Clients : Open(c) => SessionOK(c)

Moved(c) == Ends(c) \/ Commits(c) \/ \E q : Begins(c, q) \/ Goes(c, q)

LEMMA Kinded == ASSUME TypeOK, Sessions, [Next]_vars PROVE UNCHANGED vars \/ \E c \in Clients : Moved(c)
<1>1. ASSUME NEW c \in Clients, Arrive(c) \/ Proceed(c) \/ Die(c) PROVE Moved(c)
  BY <1>1, ArriveBegins, Proceeds DEF Moved, Sessions, SessionOK
<1> QED
  BY <1>1 DEF Next

\* What a commit leaves in the table.
LEMMA CommitRows ==
    ASSUME TypeOK, Sessions, NEW c \in Clients, Commits(c)
    PROVE  /\ users' \in [Users -> Rows]
           /\ \A u \in Users \ {request[c].user} : users'[u] = users[u]
           /\ users'[request[c].user].there
           /\ \A col \in DOMAIN Blank :
                users'[request[c].user][col] =
                    IF request[c].new[col] # request[c].view[col]
                    THEN request[c].new[col] ELSE users[request[c].user][col]
<1> DEFINE q == request[c]
<1>1. q \in Requests /\ q.user \in Users /\ q.view \in Rows /\ q.new \in Rows /\ users[q.user] \in Rows
  BY DEF TypeOK, Requests
<1>2. users' = [users EXCEPT ![q.user] = Merged(users[q.user], q.view, q.new)]
  BY DEF Commits
<1>3. users'[q.user] = Merged(users[q.user], q.view, q.new)
  BY <1>1, <1>2 DEF TypeOK
<1>4. users' \in [Users -> Rows] /\ \A u \in Users \ {q.user} : users'[u] = users[u]
  BY <1>1, <1>2, MergedCells DEF TypeOK
<1>5. \A col \in DOMAIN Blank :
         users'[q.user][col] = IF q.new[col] # q.view[col] THEN q.new[col] ELSE users[q.user][col]
  BY <1>1, <1>3, MergedCells
<1>6. users'[q.user].there
  <2>1. q.new.there /\ Owned(c)
    BY DEF Commits, Sessions, SessionOK, Edit
  <2>2. "there" \in DOMAIN Blank /\ Blank.there = FALSE
    BY DEF Blank
  <2>3. q.view.there => users[q.user].there
    BY <2>1, <2>2 DEF Owned
  <2>4. users'[q.user].there = IF q.new.there # q.view.there THEN q.new.there ELSE users[q.user].there
    BY <1>5, <2>2
  <2>5. q.view.there \in BOOLEAN /\ q.new.there \in BOOLEAN
    BY <1>1 DEF Rows
  <2> QED
    BY <2>1, <2>3, <2>4, <2>5
<1> QED
  BY <1>4, <1>5, <1>6

LEMMA TypeStep == TypeOK /\ Sessions /\ [Next]_vars => TypeOK'
<1> SUFFICES ASSUME TypeOK, Sessions, [Next]_vars PROVE TypeOK'
  OBVIOUS
<1>1. CASE UNCHANGED vars
  BY <1>1 DEF vars, TypeOK
<1>2. ASSUME NEW c \in Clients, Ends(c) PROVE TypeOK'
  BY <1>2, IdleType DEF Ends, TypeOK
<1>3. ASSUME NEW c \in Clients, NEW q, Begins(c, q) PROVE TypeOK'
  BY <1>3 DEF Begins, TypeOK
<1>4. ASSUME NEW c \in Clients, NEW q, Goes(c, q) PROVE TypeOK'
  BY <1>4 DEF Goes, TypeOK
<1>5. ASSUME NEW c \in Clients, Commits(c) PROVE TypeOK'
  <2> DEFINE q == request[c]
  <2>1. q \in Requests /\ q.user \in Users /\ q.view \in Rows /\ q.new \in Rows
    BY DEF TypeOK, Requests
  <2>2. users' \in [Users -> Rows]
    BY <1>5, CommitRows
  <2>3. referrals' \in Nat
    BY <1>5, <2>1 DEF Commits, TypeOK, Requests
  <2>4. proven' \subseteq Users \X Emails
    <3>1. Edit(q.kind, q.view, q.new)
      BY <1>5 DEF Commits, Sessions, SessionOK
    <3>2. q.kind = "verify" => q.view.code[2] \in Emails
      BY <2>1, <3>1 DEF Edit, Rows, Codes
    <3>3. q.kind = "admin" /\ q.new.email # q.view.email => q.new.email \in Emails
      BY <3>1 DEF Edit
    <3> QED
      BY <1>5, <2>1, <3>2, <3>3 DEF Commits, TypeOK
  <2>5. behind' \subseteq Clients /\ crossed' \subseteq Users \X Matters
    <3>1. Matter(q) \in Matters
      BY DEF Matter, Matters
    <3> QED
      BY <1>5, <2>1, <3>1 DEF Commits, Cross, TypeOK
  <2> QED
    BY <1>5, <2>2, <2>3, <2>4, <2>5, IdleType DEF Commits, TypeOK
<1> QED
  BY <1>1, <1>2, <1>3, <1>4, <1>5, Kinded DEF Moved

LEMMA SessionsStep == TypeOK /\ Sessions /\ [Next]_vars => Sessions'
<1> SUFFICES ASSUME TypeOK, Sessions, [Next]_vars PROVE Sessions'
  OBVIOUS
<1>0. Idle.stage = "idle"
  BY DEF Idle
<1>1. CASE UNCHANGED vars
  BY <1>1 DEF vars, Sessions, SessionOK, Owned, Alone, Open
<1>2. ASSUME NEW c \in Clients, Ends(c) PROVE Sessions'
  BY <1>0, <1>2 DEF Ends, TypeOK, Sessions, SessionOK, Owned, Alone, Open
<1>3. ASSUME NEW c \in Clients, NEW q, Begins(c, q) PROVE Sessions'
  BY <1>3 DEF Begins, TypeOK, Sessions, SessionOK, Owned, Alone, Open
<1>4. ASSUME NEW c \in Clients, NEW q, Goes(c, q) PROVE Sessions'
  BY <1>4 DEF Goes, TypeOK, Sessions, SessionOK, Owned, Alone, Open
<1>5. ASSUME NEW c \in Clients, Commits(c) PROVE Sessions'
  <2>1. \A u \in Users : users'[u].there \/ users'[u] = Blank
    BY <1>5, CommitRows DEF Sessions
  <2>2. \A d \in Clients : request'[d] = IF d = c THEN Idle ELSE request[d]
    BY <1>5 DEF Commits, TypeOK
  <2>3. ASSUME NEW d \in Clients, Open(d)' PROVE SessionOK(d)'
    <3>1. d # c /\ Open(d) /\ request'[d] = request[d]
      BY <1>0, <2>2, <2>3 DEF Open
    <3>2. SessionOK(d)
      BY <3>1 DEF Sessions
    <3>3. request[d].user \in Users /\ request[c].user \in Users
      BY DEF TypeOK, Requests
    <3>4. Alone(d, request[d].user) => Alone(d, request[d].user)' /\ request[c].user # request[d].user
      BY <1>0, <1>5, <2>2, <3>1 DEF Alone, Open, Commits
    <3>5. users[request[d].user].there => users'[request[d].user].there
      BY <1>5, <3>3, CommitRows
    <3>6. ~users[request[d].user].there /\ request[c].user # request[d].user
              => ~users'[request[d].user].there
      BY <1>5, <3>3, CommitRows
    <3>7. Owned(d)'
      BY <3>1, <3>2, <3>4, <3>5, <3>6 DEF SessionOK, Owned
    <3> QED
      BY <3>1, <3>2, <3>7 DEF SessionOK
  <2>4. \A d \in behind' : Open(d)'
    BY <1>5, <2>2 DEF Commits, Cross, Sessions, Open, TypeOK
  <2> QED
    BY <2>1, <2>3, <2>4 DEF Sessions
<1> QED
  BY <1>1, <1>2, <1>3, <1>4, <1>5, Kinded DEF Moved

Base == TypeOK /\ Sessions

LEMMA BaseInit == Init => Base
<1>1. Idle.stage = "idle"
  BY DEF Idle
<1>2. Init => \A u \in Users : users[u].there \/ users[u] = Blank
  <2> SUFFICES ASSUME Init PROVE \A u \in Users : users[u].there \/ users[u] = Blank
    OBVIOUS
  <2> DEFINE e == CHOOSE e \in Emails : TRUE
             mail == [Blank EXCEPT !.there = TRUE, !.email = e, !.password = 1, !.code = <<1, e>>]
             wallet == [Blank EXCEPT !.there = TRUE, !.wallet = 1, !.agent = 1]
  <2>1. mail.there /\ wallet.there
    BY BlankType DEF Rows
  <2>2. users = [v \in Users |-> IF v # First THEN Blank ELSE IF column = "free" THEN mail ELSE wallet]
    BY DEF Init
  <2> HIDE DEF mail, wallet
  <2> QED
    BY <2>1, <2>2
<1>3. Init => \A c \in Clients : ~Open(c)
  BY <1>1 DEF Init, Open
<1> QED
  BY <1>2, <1>3, InitType DEF Base, Sessions, Init

LEMMA BaseInvariant == Spec => []Base
<1>1. Base /\ [Next]_vars => Base'
  BY TypeStep, SessionsStep DEF Base
<1> QED
  BY <1>1, BaseInit, PTL DEF Spec

\* Tables, requests and history keep their types, whoever overlaps and dies:
\* what is stored as verified has a code that carries an address.
THEOREM TypeCorrect == Spec => []TypeOK
  BY BaseInvariant, PTL DEF Base

-----------------------------------------------------------------------------
(***************************************************************************)
(* Identities and switches: nothing has to be assumed of the users.        *)
(***************************************************************************)

LEMMA IdentityStep == Base /\ OneAccountPerIdentity /\ [Next]_vars => OneAccountPerIdentity'
<1> SUFFICES ASSUME Base, OneAccountPerIdentity, [Next]_vars PROVE OneAccountPerIdentity'
  OBVIOUS
<1>1. CASE users' = users
  BY <1>1 DEF OneAccountPerIdentity
<1>2. ASSUME NEW c \in Clients, Commits(c) PROVE OneAccountPerIdentity'
  <2> DEFINE q == request[c]
  <2>1. q.user \in Users
    BY DEF Base, TypeOK, Requests
  <2>2. \A u \in Users \ {q.user} : users'[u] = users[u]
    BY <1>2, CommitRows DEF Base
  <2>3. ASSUME NEW col \in {"email", "wallet"}, NEW none, none = Blank[col],
               <<col, q.new[col]>> \in {<<"email", "">>, <<"wallet", 0>>} => q.new[col] = none,
               NEW v \in Users \ {q.user}, users[v].there,
               users[q.user].there => (users[q.user][col] = users[v][col] => users[v][col] = none),
               users'[q.user][col] = users[v][col]
        PROVE  users[v][col] = none
    <3>1. users'[q.user][col] = IF q.new[col] # q.view[col] THEN q.new[col] ELSE users[q.user][col]
      <4>1. col \in DOMAIN Blank
        BY DEF Blank
      <4> QED
        BY <1>2, <4>1, CommitRows DEF Base
    <3>2. CASE q.new[col] # q.view[col]
      <4>1. <<col, q.new[col]>> \in Claims(q) \/ q.new[col] = none
        BY <2>3, <3>2 DEF Claims
      <4>2. <<col, q.new[col]>> \notin Claims(q) \/ users[v][col] # q.new[col]
        BY <1>2, <2>3 DEF Commits, Taken
      <4> QED
        BY <2>3, <3>1, <3>2, <4>1, <4>2
    <3>3. CASE q.new[col] = q.view[col]
      <4>1. users[q.user].there \/ users[q.user] = Blank
        BY <2>1 DEF Base, Sessions
      <4> QED
        BY <2>3, <3>1, <3>3, <4>1
    <3> QED
      BY <3>2, <3>3
  <2>4. Blank["email"] = "" /\ Blank["wallet"] = 0
    BY DEF Blank
  <2>5. ASSUME NEW v \in Users \ {q.user}, users[v].there
        PROVE  /\ users'[q.user].email = users[v].email => users[v].email = ""
               /\ users'[q.user].wallet = users[v].wallet => users[v].wallet = 0
    <3>1. users'[q.user].email = users[v].email => users[v].email = ""
      BY <2>1, <2>3, <2>4, <2>5 DEF OneAccountPerIdentity
    <3>2. users'[q.user].wallet = users[v].wallet => users[v].wallet = 0
      BY <2>1, <2>3, <2>4, <2>5 DEF OneAccountPerIdentity
    <3> QED
      BY <3>1, <3>2
  <2> HIDE DEF q
  <2>6. ASSUME NEW u \in Users, NEW v \in Users, u # v, users'[u].there, users'[v].there
        PROVE  /\ users'[u].email = users'[v].email => users'[u].email = ""
               /\ users'[u].wallet = users'[v].wallet => users'[u].wallet = 0
    <3>1. CASE u = q.user
      BY <2>2, <2>5, <2>6, <3>1
    <3>2. CASE v = q.user
      BY <2>2, <2>5, <2>6, <3>2
    <3>3. CASE u # q.user /\ v # q.user
      <4>1. users'[u] = users[u] /\ users'[v] = users[v]
        BY <2>2, <3>3
      <4> QED
        BY <2>6, <4>1 DEF OneAccountPerIdentity
    <3> QED
      BY <3>1, <3>2, <3>3
  <2> QED
    BY <2>6 DEF OneAccountPerIdentity
<1> QED
  BY <1>1, <1>2, Kinded DEF Base, Moved, Ends, Begins, Goes, vars

\* No e-mail and no wallet ever belongs to two accounts, however signups,
\* sign-ins, changes of the e-mail and an administrator's edits overlap
\* (the unique columns, checked at every commit).
THEOREM OneAccountEach == Spec => []OneAccountPerIdentity
<1>1. Init => OneAccountPerIdentity
  <2>1. Blank.there = FALSE
    BY DEF Blank
  <2> SUFFICES ASSUME Init PROVE \A u \in Users \ {First} : users[u] = Blank
    BY <2>1 DEF OneAccountPerIdentity
  <2> QED
    BY DEF Init
<1> QED
  BY <1>1, BaseInvariant, IdentityStep, PTL DEF Spec

LEMMA SwitchesStep ==
    ASSUME Base, [Next]_vars, NEW u \in Users, users[u].there,
           <<users[u].active, users[u].admin>> # <<users'[u].active, users'[u].admin>>
    PROVE  \E c \in Clients : request[c].kind = "admin" /\ request[c].user = u /\ request'[c].stage = "idle"
<1>1. PICK c \in Clients : Commits(c)
  BY Kinded DEF Base, Moved, Ends, Begins, Goes, vars
<1>2. request[c].user = u
  BY <1>1, CommitRows DEF Base
<1>3. request[c].kind = "admin"
  <2>1. "active" \in DOMAIN Blank /\ "admin" \in DOMAIN Blank
    BY DEF Blank
  <2>2. /\ users'[u].active = IF request[c].new.active # request[c].view.active
                              THEN request[c].new.active ELSE users[u].active
        /\ users'[u].admin = IF request[c].new.admin # request[c].view.admin
                             THEN request[c].new.admin ELSE users[u].admin
    BY <1>1, <1>2, <2>1, CommitRows DEF Base
  <2>3. Edit(request[c].kind, request[c].view, request[c].new)
    BY <1>1 DEF Base, Commits, Sessions, SessionOK
  <2> QED
    BY <2>2, <2>3 DEF Edit
<1>4. request'[c].stage = "idle"
  BY <1>1 DEF Commits, Base, TypeOK, Idle
<1> QED
  BY <1>2, <1>3, <1>4

\* Nobody but an administrator's commit moves the switches of an account,
\* whatever the requests in flight have loaded before
\* (admin_toggle_active, admin_toggle_admin).
THEOREM SwitchesAreAdmins == Spec => SwitchesStand
<1>1. Base /\ [Next]_vars =>
        [\A u \in Users :
          (users[u].there /\ <<users[u].active, users[u].admin>> # <<users'[u].active, users'[u].admin>>)
          => \E c \in Clients : request[c].kind = "admin" /\ request[c].user = u /\ request'[c].stage = "idle"]_vars
  BY SwitchesStep
<1> QED
  BY <1>1, BaseInvariant, PTL DEF Spec, SwitchesStand

-----------------------------------------------------------------------------
(***************************************************************************)
(* Credentials and the verified address.                                   *)
(***************************************************************************)

\* Unless it is behind, a user's request finds the columns of its matter as it
\* has loaded them, but for the e-mail, which administrators may change.
Held(c) ==
    LET q == request[c]
    IN  /\ q.kind = "keys" => SameKeys(users[q.user], q.view)
        /\ q.kind = "telegram" => SameBot(users[q.user], q.view)
        /\ q.kind \in {"submit", "verify"} =>
              /\ users[q.user].verified = q.view.verified /\ users[q.user].code = q.view.code
              /\ users[q.user].email = q.view.email \/ <<q.user, users[q.user].email>> \in proven

HeldOK == \A c \in Clients : (Open(c) /\ c \notin behind) => Held(c)

Own(u) == \/ <<u, users[u].email>> \in proven
          \/ ~users[u].verified /\ (users[u].code = << >> \/ users[u].code[2] = users[u].email)

RowOK(u) ==
    /\ KeysMatch(users[u]) \/ <<u, "keys">> \in crossed
    /\ BotMatches(users[u]) \/ <<u, "bot">> \in crossed
    /\ Own(u) \/ <<u, "address">> \in crossed

Whole == Base /\ HeldOK /\ \A u \in Users : RowOK(u)

\* The columns of the row a commit leaves, by what its request did.
LEMMA CommitCells ==
    ASSUME Whole, NEW c \in Clients, Commits(c),
           NEW q, q = request[c], NEW u, u = q.user
    PROVE  /\ SameKeys(q.new, q.view) => SameKeys(users'[u], users[u])
           /\ SameBot(q.new, q.view) => SameBot(users'[u], users[u])
           /\ q.new.verified = q.view.verified => users'[u].verified = users[u].verified
           /\ q.new.code = q.view.code => users'[u].code = users[u].code
           /\ users'[u].email = IF q.new.email # q.view.email THEN q.new.email ELSE users[u].email
           /\ SameKeys(users[u], q.view) => SameKeys(users'[u], q.new)
           /\ SameBot(users[u], q.view) => SameBot(users'[u], q.new)
           /\ users[u].verified = q.view.verified => users'[u].verified = q.new.verified
           /\ users[u].code = q.view.code => users'[u].code = q.new.code
<1>1. \A col \in {"email", "verified", "code", "key", "secret", "testnet", "bot", "chat"} :
         users'[u][col] = IF q.new[col] # q.view[col] THEN q.new[col] ELSE users[u][col]
  <2>1. {"email", "verified", "code", "key", "secret", "testnet", "bot", "chat"} \subseteq DOMAIN Blank
    BY DEF Blank
  <2> QED
    BY <2>1, CommitRows DEF Whole, Base
<1>2. /\ users'[u].key = IF q.new.key # q.view.key THEN q.new.key ELSE users[u].key
      /\ users'[u].secret = IF q.new.secret # q.view.secret THEN q.new.secret ELSE users[u].secret
      /\ users'[u].testnet = IF q.new.testnet # q.view.testnet THEN q.new.testnet ELSE users[u].testnet
      /\ users'[u].bot = IF q.new.bot # q.view.bot THEN q.new.bot ELSE users[u].bot
      /\ users'[u].chat = IF q.new.chat # q.view.chat THEN q.new.chat ELSE users[u].chat
  BY <1>1
<1>3. /\ users'[u].email = IF q.new.email # q.view.email THEN q.new.email ELSE users[u].email
      /\ users'[u].verified = IF q.new.verified # q.view.verified THEN q.new.verified ELSE users[u].verified
      /\ users'[u].code = IF q.new.code # q.view.code THEN q.new.code ELSE users[u].code
  BY <1>1
<1> QED
  BY <1>2, <1>3 DEF SameKeys, SameBot

\* What a commit does to the note of crossed matters.
LEMMA CrossedAfter ==
    ASSUME NEW c \in Clients, Commits(c), NEW q, q = request[c]
    PROVE  /\ \A u, m : u # q.user \/ m # Matter(q) => (<<u, m>> \in crossed <=> <<u, m>> \in crossed')
           /\ c \in behind => <<q.user, Matter(q)>> \in crossed'
           /\ q.kind \notin {"keys", "telegram", "submit"} => crossed \subseteq crossed'
  BY DEF Commits, Cross

LEMMA KeysStep ==
    ASSUME Whole, NEW c \in Clients, Commits(c), NEW u, u = request[c].user, u \in Users
    PROVE  /\ KeysMatch(users'[u]) \/ <<u, "keys">> \in crossed'
           /\ BotMatches(users'[u]) \/ <<u, "bot">> \in crossed'
<1> PICK q : q = request[c]
  OBVIOUS
<1>1. Edit(q.kind, q.view, q.new) /\ RowOK(u) /\ (c \in behind \/ Held(c)) /\ u = q.user
  BY DEF Whole, HeldOK, Base, Sessions, SessionOK, Commits
<1>2. KeysMatch(users'[u]) \/ <<u, "keys">> \in crossed'
  <2>1. CASE q.kind = "keys"
    <3>1. Matter(q) = "keys" /\ KeysMatch(q.new)
      BY <1>1, <2>1 DEF Matter, Edit
    <3>2. CASE c \in behind
      BY <1>1, <3>1, <3>2, CrossedAfter
    <3>3. CASE c \notin behind
      <4>1. SameKeys(users[u], q.view)
        BY <1>1, <2>1, <3>3 DEF Held
      <4>2. SameKeys(users'[u], q.new)
        BY <1>1, <4>1, CommitCells
      <4> QED
        BY <3>1, <4>2 DEF KeysMatch, SameKeys
    <3> QED
      BY <3>2, <3>3
  <2>2. CASE q.kind # "keys"
    <3>1. SameKeys(users'[u], users[u])
      BY <1>1, <2>2, CommitCells DEF Edit
    <3>2. Matter(q) # "keys"
      BY <2>2 DEF Matter
    <3>3. <<u, "keys">> \in crossed => <<u, "keys">> \in crossed'
      BY <3>2, CrossedAfter
    <3> QED
      BY <1>1, <3>1, <3>3 DEF RowOK, KeysMatch, SameKeys
  <2> QED
    BY <2>1, <2>2
<1>3. BotMatches(users'[u]) \/ <<u, "bot">> \in crossed'
  <2>1. CASE q.kind = "telegram"
    <3>1. Matter(q) = "bot" /\ BotMatches(q.new)
      BY <1>1, <2>1 DEF Matter, Edit
    <3>2. CASE c \in behind
      BY <1>1, <3>1, <3>2, CrossedAfter
    <3>3. CASE c \notin behind
      <4>1. SameBot(users[u], q.view)
        BY <1>1, <2>1, <3>3 DEF Held
      <4>2. SameBot(users'[u], q.new)
        BY <1>1, <4>1, CommitCells
      <4> QED
        BY <3>1, <4>2 DEF BotMatches, SameBot
    <3> QED
      BY <3>2, <3>3
  <2>2. CASE q.kind # "telegram"
    <3>1. SameBot(users'[u], users[u])
      BY <1>1, <2>2, CommitCells DEF Edit
    <3>2. Matter(q) # "bot"
      BY <2>2 DEF Matter
    <3>3. <<u, "bot">> \in crossed => <<u, "bot">> \in crossed'
      BY <3>2, CrossedAfter
    <3> QED
      BY <1>1, <3>1, <3>3 DEF RowOK, BotMatches, SameBot
  <2> QED
    BY <2>1, <2>2
<1> QED
  BY <1>2, <1>3

LEMMA AddressStep ==
    ASSUME Whole, NEW c \in Clients, Commits(c), NEW u, u = request[c].user, u \in Users
    PROVE  Own(u)' \/ <<u, "address">> \in crossed'
<1> PICK q : q = request[c]
  OBVIOUS
<1>1. Edit(q.kind, q.view, q.new) /\ RowOK(u) /\ (c \in behind \/ Held(c)) /\ u = q.user /\ Owned(c)
  BY DEF Whole, HeldOK, Base, Sessions, SessionOK, Commits
<1>2. proven \subseteq proven'
  BY DEF Commits
<1>E. users'[u].email = IF q.new.email # q.view.email THEN q.new.email ELSE users[u].email
  BY <1>1, CommitCells
<1>K. q.kind \in Kinds
  BY DEF Whole, Base, TypeOK, Requests
<1>3. CASE q.kind \in {"submit", "verify"} /\ c \in behind
  <2>1. Matter(q) = "address"
    BY <1>3 DEF Matter
  <2> QED
    BY <1>1, <1>3, <2>1, CrossedAfter
<1>4. CASE q.kind = "submit" /\ c \notin behind
  <2>1. /\ users[u].verified = q.view.verified /\ users[u].code = q.view.code
        /\ users[u].email = q.view.email \/ <<u, users[u].email>> \in proven
    BY <1>1, <1>4 DEF Held
  <2>2. users'[u].verified = q.new.verified /\ users'[u].code = q.new.code
    BY <1>1, <2>1, CommitCells
  <2>3. ~q.new.verified /\ (q.new.code = << >> \/ q.new.code[2] = q.new.email)
    BY <1>1, <1>4 DEF Edit
  <2> QED
    BY <1>2, <1>E, <2>1, <2>2, <2>3 DEF Own
<1>5. CASE q.kind = "verify" /\ c \notin behind
  <2>1. /\ users[u].code = q.view.code /\ q.view.code # << >> /\ q.new.email = q.view.email
    BY <1>1, <1>5 DEF Held, Edit
  <2>2. <<u, q.view.code[2]>> \in proven'
    BY <1>1, <1>5 DEF Commits
  <2>3. users'[u].email = users[u].email
    BY <1>E, <2>1
  <2>4. CASE <<u, "address">> \in crossed
    BY <1>5, <2>4, CrossedAfter
  <2>5. CASE Own(u)
    BY <1>2, <2>1, <2>2, <2>3, <2>5 DEF Own
  <2> QED
    BY <1>1, <2>4, <2>5 DEF RowOK
<1>6. CASE q.kind = "register"
  <2>1. ~q.view.there /\ ~q.new.verified /\ (q.new.code = << >> \/ q.new.code[2] = q.new.email)
    BY <1>1, <1>6 DEF Edit
  <2>2. q.view = Blank /\ users[u] = Blank
    BY <1>1, <2>1 DEF Owned, Whole, Base, Sessions
  <2>3. users'[u].verified = q.new.verified /\ users'[u].code = q.new.code
    BY <1>1, <2>2, CommitCells
  <2>4. users'[u].email = q.new.email
    BY <1>E, <2>2
  <2> QED
    BY <2>1, <2>3, <2>4 DEF Own
<1>7. CASE q.kind \notin {"submit", "verify", "register"}
  <2>1. q.new.verified = q.view.verified /\ q.new.code = q.view.code
    BY <1>1, <1>7 DEF Edit
  <2>2. users'[u].verified = users[u].verified /\ users'[u].code = users[u].code
    BY <1>1, <2>1, CommitCells
  <2>3. users'[u].email = users[u].email \/ <<u, users'[u].email>> \in proven'
    <3>1. CASE q.kind = "admin"
      BY <1>1, <1>E, <3>1 DEF Commits
    <3>2. CASE q.kind # "admin"
      BY <1>1, <1>7, <1>E, <3>2 DEF Edit
    <3> QED
      BY <3>1, <3>2
  <2>4. Matter(q) # "address"
    BY <1>7 DEF Matter
  <2>5. <<u, "address">> \in crossed => <<u, "address">> \in crossed'
    BY <2>4, CrossedAfter
  <2> QED
    BY <1>1, <1>2, <2>2, <2>3, <2>5 DEF RowOK, Own
<1> QED
  BY <1>3, <1>4, <1>5, <1>6, <1>7

LEMMA RowStep == ASSUME Whole, NEW c \in Clients, Commits(c) PROVE \A u \in Users : RowOK(u)'
<1>1. request[c].user \in Users
  BY DEF Whole, Base, TypeOK, Requests
<1>2. ASSUME NEW u \in Users, u = request[c].user PROVE RowOK(u)'
  BY <1>2, KeysStep, AddressStep DEF RowOK, KeysMatch, BotMatches
<1>3. ASSUME NEW u \in Users, u # request[c].user PROVE RowOK(u)'
  <2>1. users'[u] = users[u] /\ proven \subseteq proven'
    BY <1>3, CommitRows DEF Whole, Base, Commits
  <2>2. \A m : <<u, m>> \in crossed => <<u, m>> \in crossed'
    BY <1>3, CrossedAfter
  <2>3. RowOK(u)
    BY DEF Whole
  <2> QED
    BY <2>1, <2>2, <2>3 DEF RowOK, Own, KeysMatch, BotMatches
<1> QED
  BY <1>2, <1>3

LEMMA HeldStep == ASSUME Whole, [Next]_vars PROVE HeldOK'
<1>0. Idle.stage = "idle"
  BY DEF Idle
<1>1. CASE UNCHANGED vars
  BY <1>1 DEF vars, Whole, HeldOK, Held, SameKeys, SameBot, Open
<1>2. ASSUME NEW c \in Clients, Ends(c) PROVE HeldOK'
  <2>1. \A d \in Clients : request'[d] = IF d = c THEN Idle ELSE request[d]
    BY <1>2 DEF Ends, Whole, Base, TypeOK
  <2> QED
    BY <1>0, <1>2, <2>1 DEF Ends, Whole, HeldOK, Held, SameKeys, SameBot, Open
<1>3. ASSUME NEW c \in Clients, NEW q, Begins(c, q) PROVE HeldOK'
  <2>1. q.view = users[q.user]
    BY <1>3 DEF Begins, Whole, Base, Sessions, Requests
  <2>2. \A d \in Clients : request'[d] = IF d = c THEN q ELSE request[d]
    BY <1>3 DEF Begins, Whole, Base, TypeOK
  <2> QED
    BY <1>3, <2>1, <2>2 DEF Begins, Whole, HeldOK, Held, SameKeys, SameBot, Open
<1>4. ASSUME NEW c \in Clients, NEW q, Goes(c, q) PROVE HeldOK'
  <2>1. \A d \in Clients : request'[d] = IF d = c THEN q ELSE request[d]
    BY <1>4 DEF Goes, Whole, Base, TypeOK
  <2> QED
    BY <1>4, <2>1 DEF Goes, Whole, HeldOK, Held, SameKeys, SameBot, Open
<1>5. ASSUME NEW c \in Clients, Commits(c) PROVE HeldOK'
  <2>1. \A d \in Clients : request'[d] = IF d = c THEN Idle ELSE request[d]
    BY <1>5 DEF Commits, Whole, Base, TypeOK
  <2>2. ASSUME NEW d \in Clients \ {c}, Open(d), d \notin behind' PROVE Held(d)'
    <3>1. /\ d \notin behind /\ Held(d) /\ request'[d] = request[d] /\ proven \subseteq proven'
          /\ ~Shared(request[c], request[d])
      BY <1>5, <2>1, <2>2 DEF Whole, HeldOK, Commits, Cross
    <3>2. CASE request[d].user = request[c].user
      <4>1. PICK q, u : q = request[c] /\ u = q.user
        OBVIOUS
      <4>2. Edit(q.kind, q.view, q.new) /\ q.kind \in Kinds
        BY <1>5, <4>1 DEF Whole, Base, TypeOK, Requests, Sessions, SessionOK, Commits
      <4>3. CASE request[d].kind = "keys"
        <5>1. q.kind # "keys"
          BY <3>1, <3>2, <4>1, <4>3 DEF Shared, Matter
        <5>2. SameKeys(users'[u], users[u])
          BY <1>5, <4>1, <4>2, <5>1, CommitCells DEF Edit
        <5> QED
          BY <3>1, <3>2, <4>1, <4>3, <5>2 DEF Held, SameKeys
      <4>4. CASE request[d].kind = "telegram"
        <5>1. q.kind # "telegram"
          BY <3>1, <3>2, <4>1, <4>4 DEF Shared, Matter
        <5>2. SameBot(users'[u], users[u])
          BY <1>5, <4>1, <4>2, <5>1, CommitCells DEF Edit
        <5> QED
          BY <3>1, <3>2, <4>1, <4>4, <5>2 DEF Held, SameBot
      <4>5. CASE request[d].kind \in {"submit", "verify"}
        <5>1. q.kind \notin {"submit", "verify"}
          BY <3>1, <3>2, <4>1, <4>5 DEF Shared, Matter
        <5>2. q.kind # "register"
          <6>1. Open(d) /\ Owned(c) /\ c \in Clients \ {d}
            BY <1>5, <2>2 DEF Whole, Base, Sessions, SessionOK, Commits
          <6>2. q.kind = "register" => Alone(c, u)
            BY <4>1, <4>2, <6>1 DEF Edit, Owned
          <6> QED
            BY <2>2, <3>2, <4>1, <6>1, <6>2 DEF Alone
        <5>3. q.new.verified = q.view.verified /\ q.new.code = q.view.code
          BY <4>2, <5>1, <5>2 DEF Edit
        <5>4. users'[u].verified = users[u].verified /\ users'[u].code = users[u].code
          BY <1>5, <4>1, <5>3, CommitCells
        <5>5. users'[u].email = users[u].email \/ <<u, users'[u].email>> \in proven'
          <6>1. users'[u].email = IF q.new.email # q.view.email THEN q.new.email ELSE users[u].email
            BY <1>5, <4>1, CommitCells
          <6>2. q.kind # "admin" => q.new.email = q.view.email
            BY <4>2, <5>1, <5>2 DEF Edit
          <6> QED
            BY <1>5, <4>1, <6>1, <6>2 DEF Commits
        <5> QED
          BY <3>1, <3>2, <4>1, <4>5, <5>4, <5>5 DEF Held
      <4>6. CASE request[d].kind \notin {"keys", "telegram", "submit", "verify"}
        BY <3>1, <4>6 DEF Held
      <4> QED
        BY <4>3, <4>4, <4>5, <4>6
    <3>3. CASE request[d].user # request[c].user
      <4>1. users'[request[d].user] = users[request[d].user]
        BY <1>5, <3>3, CommitRows DEF Whole, Base, TypeOK, Requests
      <4> QED
        BY <3>1, <4>1 DEF Held, SameKeys, SameBot
    <3> QED
      BY <3>2, <3>3
  <2> QED
    BY <1>0, <2>1, <2>2 DEF HeldOK, Open
<1> QED
  BY <1>1, <1>2, <1>3, <1>4, <1>5, Kinded DEF Whole, Base, Moved

LEMMA WholeInvariant == Spec => []Whole
<1>1. Init => Whole
  <2> SUFFICES ASSUME Init PROVE Whole
    OBVIOUS
  <2>1. \A c \in Clients : ~Open(c)
    <3>1. Idle.stage = "idle"
      BY DEF Idle
    <3> QED
      BY <3>1 DEF Init, Open
  <2>2. \A u \in Users : RowOK(u)
    <3> DEFINE e == CHOOSE e \in Emails : TRUE
               mail == [Blank EXCEPT !.there = TRUE, !.email = e, !.password = 1, !.code = <<1, e>>]
               wallet == [Blank EXCEPT !.there = TRUE, !.wallet = 1, !.agent = 1]
    <3>0. KeysMatch(Blank) /\ BotMatches(Blank) /\ ~Blank.verified /\ Blank.code = << >>
      BY DEF Blank, KeysMatch, BotMatches
    <3>1. /\ KeysMatch(mail) /\ BotMatches(mail) /\ ~mail.verified /\ mail.code[2] = mail.email
          /\ KeysMatch(wallet) /\ BotMatches(wallet) /\ ~wallet.verified /\ wallet.code = << >>
      <4> HIDE DEF e
      <4>1. KeysMatch(wallet) /\ BotMatches(wallet) /\ ~wallet.verified /\ wallet.code = << >>
        BY <3>0, BlankType DEF Rows, KeysMatch, BotMatches
      <4>2. mail.code = <<1, e>> /\ mail.email = e /\ mail.verified = Blank.verified
        BY BlankType DEF Rows
      <4>3. KeysMatch(mail) /\ BotMatches(mail)
        BY <3>0, BlankType DEF Rows, KeysMatch, BotMatches
      <4> QED
        BY <3>0, <4>1, <4>2, <4>3
    <3>2. users = [v \in Users |-> IF v # First THEN Blank ELSE IF column = "free" THEN mail ELSE wallet]
      BY DEF Init
    <3> HIDE DEF mail, wallet
    <3> QED
      BY <3>0, <3>1, <3>2 DEF RowOK, Own
  <2> QED
    BY <2>1, <2>2, BaseInit DEF Whole, HeldOK
<1>2. Whole /\ [Next]_vars => Whole'
  <2> SUFFICES ASSUME Whole, [Next]_vars PROVE Whole'
    OBVIOUS
  <2>1. Base' /\ HeldOK'
    BY TypeStep, SessionsStep, HeldStep DEF Whole, Base
  <2>2. \A u \in Users : RowOK(u)'
    <3>1. CASE users' = users /\ proven' = proven /\ crossed' = crossed
      BY <3>1 DEF Whole, RowOK, KeysMatch, BotMatches, Own
    <3>2. ASSUME NEW c \in Clients, Commits(c) PROVE \A u \in Users : RowOK(u)'
      BY <3>2, RowStep
    <3> QED
      BY <3>1, <3>2, Kinded DEF Whole, Base, Moved, Ends, Begins, Goes, vars
  <2> QED
    BY <2>1, <2>2 DEF Whole
<1> QED
  BY <1>1, <1>2, PTL DEF Spec

\* Key, secret and environment come from one connect request, and the chat is
\* the one the bot was tried out with, however requests overlap; only a request
\* that commits on credentials which the user's other request has changed since it
\* was loaded mixes them, and until the next one (connect_bybit, connect_binance,
\* save_telegram_config).
THEOREM CredentialsBelongTogether == Spec => []CredentialsMatch
<1>1. Whole => CredentialsMatch
  BY DEF Whole, RowOK, CredentialsMatch
<1> QED
  BY <1>1, WholeInvariant, PTL

\* A verified address is one whose own code was entered, or one that an
\* administrator has set, but for a user whose submit_email or verify_email
\* committed on an address the other had changed since it was loaded
\* (submit_email, verify_email, admin_update_user).
THEOREM AddressIsProven == Spec => []VerifiedByOwnCode
<1>1. Whole => VerifiedByOwnCode
  BY DEF Whole, RowOK, Own, VerifiedByOwnCode
<1> QED
  BY <1>1, WholeInvariant, PTL

-----------------------------------------------------------------------------
(***************************************************************************)
(* The referrer's count.                                                   *)
(***************************************************************************)

Referred == {u \in Users : users[u].referred}

Missed == \E u \in Users : <<u, "count">> \in crossed

\* A signup has read a count that was not too high, and is the present one unless
\* another signup has raised it since.
Counted ==
    /\ Base /\ referrals <= Cardinality(Referred)
    /\ referrals = Cardinality(Referred) \/ Missed
    /\ \A c \in Clients : Open(c) => CountOK(request[c])
    /\ \A c \in Clients : (Open(c) /\ Counting(request[c])) =>
          request[c].seen <= Cardinality(Referred) /\ (c \in behind \/ request[c].seen = referrals)

LEMMA CountCommit ==
    ASSUME Counted, IsFiniteSet(Users), NEW c \in Clients, Commits(c)
    PROVE  /\ referrals' <= Cardinality(Referred') /\ Cardinality(Referred) <= Cardinality(Referred')
           /\ referrals' = Cardinality(Referred') \/ Missed'
           /\ ~Counting(request[c]) => referrals' = referrals
<1> PICK q : q = request[c]
  OBVIOUS
<1> PICK u \in Users : u = q.user
  BY DEF Counted, Base, TypeOK, Requests
<1>1. /\ CountOK(q) /\ Owned(c) /\ q.stage = "answered" /\ Open(c)
      /\ referrals' = IF q.new.referred /\ ~q.view.referred THEN q.seen + 1 ELSE referrals
  BY DEF Counted, Commits, Base, Sessions, SessionOK
<1>2. Blank.referred = FALSE /\ "referred" \in DOMAIN Blank
  BY DEF Blank
<1>3. /\ users'[u].referred = IF q.new.referred # q.view.referred THEN q.new.referred ELSE users[u].referred
      /\ \A v \in Users \ {u} : users'[v] = users[v]
  BY <1>2, CommitRows DEF Counted, Base
<1>4. IsFiniteSet(Referred) /\ Cardinality(Referred) \in Nat /\ q.seen \in Nat /\ referrals \in Nat
  <2>1. IsFiniteSet(Referred)
    BY FS_Subset DEF Referred
  <2> QED
    BY <2>1, FS_CardinalityType DEF Counted, Base, TypeOK, Requests
<1>5. Missed => Missed' \/ Matter(q) # "count"
  BY CrossedAfter DEF Missed, Matter
<1>6. Missed => Missed'
  <2>1. CASE Matter(q) = "count"
    BY <1>5, <2>1
  <2>2. CASE Matter(q) # "count"
    BY <2>2, CrossedAfter DEF Missed
  <2> QED
    BY <2>1, <2>2
<1>7. CASE q.code
  <2>1. Counting(q) /\ q.kind \in {"register", "generate"} /\ ~users[u].there /\ q.view = Blank /\ q.new.referred
    BY <1>1, <1>7 DEF Owned, Counting, CountOK
  <2>2. users[u] = Blank /\ Matter(q) = "count"
    BY <2>1 DEF Counted, Base, Sessions, Matter
  <2>3. u \notin Referred /\ Referred' = Referred \union {u}
    BY <1>2, <1>3, <2>1, <2>2 DEF Referred
  <2>4. Cardinality(Referred') = Cardinality(Referred) + 1
    BY <1>4, <2>3, FS_AddElement
  <2>5. referrals' = q.seen + 1
    BY <1>1, <1>2, <2>1
  <2>6. q.seen <= Cardinality(Referred) /\ (c \in behind \/ q.seen = referrals)
    BY <1>1, <2>1 DEF Counted
  <2>7. c \in behind => Missed'
    BY <2>2, CrossedAfter DEF Missed
  <2>8. referrals = Cardinality(Referred) \/ Missed
    BY DEF Counted
  <2>9. referrals' <= Cardinality(Referred') /\ Cardinality(Referred) <= Cardinality(Referred')
    BY <1>4, <2>4, <2>5, <2>6
  <2>10. referrals' = Cardinality(Referred') \/ Missed'
    BY <1>4, <1>6, <2>4, <2>5, <2>6, <2>7, <2>8
  <2> QED
    BY <2>1, <2>9, <2>10
<1>8. CASE ~q.code
  <2>1. q.new.referred = q.view.referred
    BY <1>1, <1>8 DEF CountOK
  <2>2. Referred' = Referred /\ referrals' = referrals
    BY <1>1, <1>3, <2>1 DEF Referred
  <2> QED
    BY <1>4, <1>6, <2>2 DEF Counted
<1> QED
  BY <1>7, <1>8

LEMMA CountStep == ASSUME IsFiniteSet(Users), Counted, [Next]_vars PROVE Counted'
<1>0. Idle.stage = "idle" /\ Blank.referred = FALSE
  BY DEF Idle, Blank
<1>B. Base'
  BY TypeStep, SessionsStep DEF Counted, Base
<1>1. CASE UNCHANGED vars
  BY <1>1, <1>B DEF vars, Counted, CountOK, Counting, Referred, Missed, Open
<1>2. ASSUME NEW c \in Clients, Ends(c) PROVE Counted'
  <2>1. \A d \in Clients : request'[d] = IF d = c THEN Idle ELSE request[d]
    BY <1>2 DEF Ends, Counted, Base, TypeOK
  <2>2. Referred' = Referred /\ (Missed <=> Missed') /\ referrals' = referrals /\ behind' = behind \ {c}
    BY <1>2 DEF Ends, Referred, Missed
  <2> QED
    BY <1>0, <1>B, <2>1, <2>2 DEF Counted, CountOK, Counting, Open
<1>3. ASSUME NEW c \in Clients, NEW q, Begins(c, q) PROVE Counted'
  <2>1. CountOK(q) /\ ~Counting(q)
    <3>1. /\ q.stage = "loaded" /\ q.new.referred = q.view.referred
          /\ q.code => q.kind \in {"register", "generate"} /\ q.view = Blank
      BY <1>3 DEF Begins
    <3> QED
      BY <1>0, <3>1 DEF CountOK, Counting
  <2>2. \A d \in Clients : request'[d] = IF d = c THEN q ELSE request[d]
    BY <1>3 DEF Begins, Counted, Base, TypeOK
  <2>3. Referred' = Referred /\ (Missed <=> Missed') /\ referrals' = referrals /\ behind' = behind
    BY <1>3 DEF Begins, Referred, Missed
  <2> QED
    BY <1>B, <2>1, <2>2, <2>3 DEF Counted, CountOK, Counting, Open
<1>4. ASSUME NEW c \in Clients, NEW q, Goes(c, q) PROVE Counted'
  <2>1. /\ CountOK(q)
        /\ Counting(q) => q.seen = referrals \/ (Counting(request[c]) /\ q.seen = request[c].seen)
    BY <1>4 DEF Goes, Counted
  <2>2. \A d \in Clients : request'[d] = IF d = c THEN q ELSE request[d]
    BY <1>4 DEF Goes, Counted, Base, TypeOK
  <2>3. Referred' = Referred /\ (Missed <=> Missed') /\ referrals' = referrals /\ behind' = behind
    BY <1>4 DEF Goes, Referred, Missed
  <2>4. Counting(q) => q.seen <= Cardinality(Referred) /\ (c \in behind \/ q.seen = referrals)
    BY <1>4, <2>1 DEF Counted, Goes
  <2> QED
    BY <1>4, <1>B, <2>1, <2>2, <2>3, <2>4 DEF Goes, Counted, CountOK, Counting, Open
<1>5. ASSUME NEW c \in Clients, Commits(c) PROVE Counted'
  <2>1. \A d \in Clients : request'[d] = IF d = c THEN Idle ELSE request[d]
    BY <1>5 DEF Commits, Counted, Base, TypeOK
  <2>2. ASSUME NEW d \in Clients \ {c}, Open(d), Counting(request[d])
        PROVE  request[d].seen <= Cardinality(Referred') /\ (d \in behind' \/ request[d].seen = referrals')
    <3>1. request[d].seen <= Cardinality(Referred) /\ (d \in behind \/ request[d].seen = referrals)
      BY <2>2 DEF Counted
    <3>2. Cardinality(Referred) <= Cardinality(Referred') /\ (~Counting(request[c]) => referrals' = referrals)
      BY <1>5, CountCommit
    <3>3. Counting(request[c]) \/ d \in behind => d \in behind'
      BY <1>5, <2>2 DEF Commits, Cross, Shared
    <3>4. /\ request[d].seen \in Nat /\ Cardinality(Referred) \in Nat /\ Cardinality(Referred') \in Nat
      <4>1. IsFiniteSet(Referred) /\ IsFiniteSet(Referred')
        BY FS_Subset DEF Referred
      <4> QED
        BY <4>1, FS_CardinalityType DEF Counted, Base, TypeOK, Requests
    <3> QED
      BY <3>1, <3>2, <3>3, <3>4
  <2>3. \A d \in Clients \ {c} : Open(d) => CountOK(request[d])
    BY DEF Counted
  <2>4. /\ referrals' <= Cardinality(Referred') /\ (referrals' = Cardinality(Referred') \/ Missed')
    BY <1>5, CountCommit
  <2>5. \A d \in Clients : Open(d)' => d # c /\ Open(d) /\ request'[d] = request[d]
    BY <1>0, <2>1 DEF Open
  <2>6. \A d \in Clients : Open(d)' => CountOK(request[d])'
    BY <2>3, <2>5 DEF CountOK
  <2>7. \A d \in Clients : (Open(d)' /\ Counting(request[d])') =>
           request'[d].seen <= Cardinality(Referred') /\ (d \in behind' \/ request'[d].seen = referrals')
    BY <2>2, <2>5 DEF Counting
  <2> QED
    BY <1>B, <2>4, <2>6, <2>7 DEF Counted
<1> QED
  BY <1>1, <1>2, <1>3, <1>4, <1>5, Kinded DEF Counted, Base, Moved

\* Identities belong to one account, and a referrer's count is the number of
\* accounts attached to his code, also when signups fail after the count was
\* raised: it is never above, and below only by signups that had read it before
\* another raised it (register, generate_wallet, _attach_referral_ambassador).
THEOREM SignupsAddUp == ASSUME IsFiniteSet(Users) PROVE Spec => []SignupsAgree
<1>1. Init => Counted
  <2> SUFFICES ASSUME Init PROVE Counted
    OBVIOUS
  <2>1. \A c \in Clients : ~Open(c)
    <3>1. Idle.stage = "idle"
      BY DEF Idle
    <3> QED
      BY <3>1 DEF Init, Open
  <2>2. Referred = {}
    <3> DEFINE e == CHOOSE e \in Emails : TRUE
               mail == [Blank EXCEPT !.there = TRUE, !.email = e, !.password = 1, !.code = <<1, e>>]
               wallet == [Blank EXCEPT !.there = TRUE, !.wallet = 1, !.agent = 1]
    <3>1. ~Blank.referred
      BY DEF Blank
    <3>2. ~mail.referred /\ ~wallet.referred
      BY <3>1, BlankType DEF Rows
    <3>3. users = [v \in Users |-> IF v # First THEN Blank ELSE IF column = "free" THEN mail ELSE wallet]
      BY DEF Init
    <3> HIDE DEF mail, wallet
    <3> QED
      BY <3>1, <3>2, <3>3 DEF Referred
  <2>3. referrals = 0
    BY DEF Init
  <2> QED
    BY <2>1, <2>2, <2>3, BaseInit, FS_EmptySet DEF Counted
<1>2. Counted /\ [Next]_vars => Counted'
  BY CountStep
<1>3. Counted /\ OneAccountPerIdentity => SignupsAgree
  BY DEF Counted, Referred, Missed, ReferralsCounted, SignupsAgree
<1> QED
  BY <1>1, <1>2, <1>3, OneAccountEach, PTL DEF Spec

=============================================================================
