------------------------------ MODULE Accounts ------------------------------
(***************************************************************************)
(* Accounts: signing up by e-mail or wallet, verifying the e-mail,         *)
(* resetting the password, storing exchange keys and the Telegram bot      *)
(* (routers/auth.py, routers/telegram.py), and the administrator who edits *)
(* users (routers/admin/users.py).                                         *)
(*                                                                         *)
(* Every request works on a database session of its own: it loads the row, *)
(* changes its copy, and a flush writes the columns in which the copy      *)
(* differs from what was loaded and locks the row until the commit         *)
(* (db/base.py; READ COMMITTED).  With the FastAPI version of uv.lock the  *)
(* code after the yield of get_db runs when the response has been sent, so *)
(* the answer comes before the commit.  Mail, Telegram and exchanges are   *)
(* only waited for: what they say is a free choice.                        *)
(***************************************************************************)
EXTENDS Naturals, FiniteSets

CONSTANTS
    Users,          \* row ids
    Emails, Wallets, Chats,
    Clients,        \* requests in flight at a time
    CodeColumns,    \* of "enforced" (VARCHAR(6), PostgreSQL) and "free" (SQLite)
    MaxRequests     \* bound

ASSUME AccountConstants ==
    /\ Users # {} /\ Emails # {}
    /\ MaxRequests \in Nat \ {0}
    /\ Wallets \subseteq Nat \ (0..MaxRequests)
    /\ "" \notin Emails
    /\ CodeColumns \subseteq {"enforced", "free"}

VARIABLES
    users,      \* the users table; an absent row is Blank
    request,    \* Clients -> the request in flight
    referrals,  \* total_referrals of the one referrer (team_size moves with it)
    column,     \* what the database does to a code that is too long
    made,       \* requests begun: numbers codes, links, keys and passwords
    proven,     \* history: <<user, e-mail>> whose code was entered, or set by an administrator
    lost,       \* history: new rows whose process died after the answer
    behind,     \* history: clients whose request works on what another has changed since
    crossed     \* history: <<user, matter>> whose last change was made on such old values

vars == <<users, request, referrals, column, made, proven, lost, behind, crossed>>

Numbers == 1..MaxRequests
Stages == {"idle", "loaded", "inserted", "found", "attached", "written", "answered"}
Kinds == {"register", "signin", "wallet", "generate", "submit", "verify", "forgot", "reset",
          "keys", "telegram", "admin"}
Matters == {"keys", "bot", "address", "count"}
Flushed == {"inserted", "found", "attached", "written", "answered"}

\* verification codes carry the address they are mailed to; API keys the
\* environment they are for; a bot the chat the test message went to
Codes == {<< >>} \union (Numbers \X Emails)
Keys == {<< >>} \union (Numbers \X BOOLEAN)
Bots == {<< >>} \union (Numbers \X Chats)

Rows == [there : BOOLEAN, email : Emails \union {""}, verified : BOOLEAN, code : Codes,
         password : {0} \union Numbers, reset : {0} \union Numbers,
         wallet : {0} \union Numbers \union Wallets, agent : {0} \union Numbers,
         key : Keys, secret : Keys, testnet : BOOLEAN, bot : Bots, chat : {0} \union Chats,
         active : BOOLEAN, admin : BOOLEAN, referred : BOOLEAN]

Blank == [there |-> FALSE, email |-> "", verified |-> FALSE, code |-> << >>,
          password |-> 0, reset |-> 0, wallet |-> 0, agent |-> 0,
          key |-> << >>, secret |-> << >>, testnet |-> FALSE, bot |-> << >>, chat |-> 0,
          active |-> TRUE, admin |-> FALSE, referred |-> FALSE]

\* What a request has loaded, what it makes of it, with a referrer's code?,
\* and the count it has read.
Requests == [stage : Stages, kind : Kinds, user : Users, no : 0..MaxRequests,
             view : Rows, new : Rows, code : BOOLEAN, seen : Nat]

First == CHOOSE u \in Users : TRUE

Idle == [stage |-> "idle", kind |-> "signin", user |-> First, no |-> 0,
               view |-> Blank, new |-> Blank, code |-> FALSE, seen |-> 0]

TypeOK ==
    /\ users \in [Users -> Rows]
    /\ request \in [Clients -> Requests]
    /\ referrals \in Nat
    /\ column \in CodeColumns
    /\ made \in 0..MaxRequests
    /\ proven \subseteq Users \X Emails
    /\ lost \subseteq Users
    /\ behind \subseteq Clients /\ crossed \subseteq Users \X Matters

\* One account exists, made by request 1: by e-mail, its code in the mail, or
\* by wallet where the code column refuses every e-mail account.
Init ==
    /\ column \in CodeColumns
    /\ LET e == CHOOSE e \in Emails : TRUE IN
          users = [v \in Users |->
              IF v # First THEN Blank
              ELSE IF column = "free"
              THEN [Blank EXCEPT !.there = TRUE, !.email = e, !.password = 1, !.code = <<1, e>>]
              ELSE [Blank EXCEPT !.there = TRUE, !.wallet = 1, !.agent = 1]]
    /\ request = [c \in Clients |-> Idle]
    /\ referrals = 0
    /\ made = 1
    /\ proven = {} /\ lost = {} /\ behind = {} /\ crossed = {}

-----------------------------------------------------------------------------
(***************************************************************************)
(* Sessions of the database.                                               *)
(***************************************************************************)

Open(c) == request[c].stage # "idle"

\* An index on email alone.
ClaimsEmail(q) == IF q.new.email \notin {q.view.email, ""} THEN {<<"email", q.new.email>>} ELSE {}

\* Unique values the session has written and others have to wait for.
Claims(q) == {<<col, q.new[col]>> : col \in {k \in {"email", "wallet"} : q.new[k] # q.view[k]}}
               \ {<<"email", "">>, <<"wallet", 0>>}

\* Another open session has locked the row, or is writing the same value.
Blocked(c) ==
    \E d \in Clients \ {c} :
        /\ request[d].stage \in Flushed
        /\ \/ request[d].user = request[c].user
           \/ Claims(request[d]) \intersect Claims(request[c]) # {}

\* The unique columns of users: email, wallet_address_hash.
Taken(q) ==
    \E u \in Users \ {q.user} : \E cell \in Claims(q) :
        users[u].there /\ users[u][cell[1]] = cell[2]

\* A code is stored as 64 hexadecimal digits.
TooLong(q) == column = "enforced" /\ q.new.code # q.view.code /\ q.new.code # << >>

\* Every column is written back.
WholeRow(row, view, new) == new
\* The UPDATE names the columns whose value the session has changed.
Merged(row, view, new) == [col \in DOMAIN row |-> IF new[col] # view[col] THEN new[col] ELSE row[col]]

\* The referrer's count has been read.
Counting(q) == q.code /\ q.stage \in {"found", "attached", "written", "answered"}

\* What a request reads and writes that another request may have in hand as well.
Matter(q) == CASE q.kind = "keys" -> "keys"
               [] q.kind = "telegram" -> "bot"
               [] q.kind \in {"submit", "verify"} -> "address"
               [] OTHER -> "count"

Shared(q, r) == \/ Matter(q) # "count" /\ Matter(q) = Matter(r) /\ q.user = r.user
                \/ Counting(q) /\ Counting(r)

\* The request in hand numbers what it makes: codes, keys, passwords.
fresh == made + 1

\* A request that has loaded row u and is going to leave it as new.
Load(c, kind, u, new) ==
    /\ ~Open(c) /\ made < MaxRequests
    /\ made' = fresh
    /\ request' = [request EXCEPT ![c] = [stage |-> "loaded", kind |-> kind, user |-> u, no |-> fresh,
                                          view |-> users[u], new |-> new, code |-> FALSE,
                                          seen |-> 0]]
    /\ UNCHANGED <<users, referrals, column, proven, lost, behind, crossed>>

\* get_current_user: a deactivated account is turned away.
Authenticated(c, kind, u, new) ==
    users[u].there /\ users[u].active /\ Load(c, kind, u, new)

\* A new row gets an id that nobody has.
Free(u) == u = CHOOSE v \in Users : ~users[v].there /\ \A c \in Clients : Open(c) => request[c].user # v
Room == \E v \in Users : ~users[v].there /\ \A c \in Clients : Open(c) => request[c].user # v

\* A session that inserts row u, with the referrer's code or without.
Create(c, kind, u, new, code) ==
    /\ Room /\ Free(u) /\ ~Open(c) /\ made < MaxRequests
    /\ made' = fresh
    /\ request' = [request EXCEPT ![c] = [stage |-> "loaded", kind |-> kind, user |-> u, no |-> fresh,
                                          view |-> Blank, new |-> new, code |-> code, seen |-> 0]]
    /\ lost' = lost \ {u}
    /\ UNCHANGED <<users, referrals, column, proven, behind, crossed>>

-----------------------------------------------------------------------------
(***************************************************************************)
(* The requests, as far as their first flush.                              *)
(***************************************************************************)

Register(c, u, e, code) ==
    /\ \A v \in Users : users[v].there => users[v].email # e
    /\ Create(c, "register", u, [Blank EXCEPT !.there = TRUE, !.email = e, !.password = fresh], code)

GenerateWallet(c, u, code) ==
    Create(c, "generate", u, [Blank EXCEPT !.there = TRUE, !.wallet = fresh, !.agent = fresh], code)

\* A signed-in user links a wallet that no other account has.
ConnectWallet(c, u, w) ==
    /\ \A v \in Users \ {u} : users[v].there => users[v].wallet # w
    /\ users[u].there /\ Load(c, "wallet", u, [users[u] EXCEPT !.wallet = w, !.agent = fresh])

\* Without a token the wallet itself signs in: its account gets the new
\* agent key, or an account is made.
SignInWithWallet(c, u, w) ==
    \/ /\ users[u].there /\ users[u].wallet = w
       /\ Load(c, "signin", u, [users[u] EXCEPT !.agent = fresh])
    \/ /\ \A v \in Users : users[v].there => users[v].wallet # w
       /\ Create(c, "signin", u, [Blank EXCEPT !.there = TRUE, !.wallet = w, !.agent = fresh], FALSE)

\* Without taking the old verification back.
SubmitKeepingFlag(c, u, e) ==
    /\ \A v \in Users \ {u} : users[v].there => users[v].email # e
    /\ Authenticated(c, "submit", u, [users[u] EXCEPT !.email = e, !.code = <<fresh, e>>])

SubmitEmail(c, u, e) ==
    /\ \A v \in Users \ {u} : users[v].there => users[v].email # e
    /\ Authenticated(c, "submit", u, [users[u] EXCEPT !.email = e, !.verified = FALSE, !.code = <<fresh, e>>])

\* With the code on file, before it expires.
VerifyEmail(c, u) ==
    /\ ~users[u].verified /\ users[u].code # << >>
    /\ Authenticated(c, "verify", u, [users[u] EXCEPT !.verified = TRUE, !.code = << >>])

ForgotPassword(c, u) ==
    /\ users[u].there /\ users[u].password # 0
    /\ Load(c, "forgot", u, [users[u] EXCEPT !.reset = fresh])

\* By the link of a mail, before it expires.
ResetPassword(c, u) ==
    /\ users[u].reset # 0
    /\ Authenticated(c, "reset", u, [users[u] EXCEPT !.password = fresh, !.reset = 0])

\* Bybit and Binance alike; the keys are tried out first.
ConnectExchange(c, u, net) ==
    Authenticated(c, "keys", u, [users[u] EXCEPT !.key = <<fresh, net>>, !.secret = <<fresh, net>>, !.testnet = net])

\* Only the key goes.
DisconnectKeyOnly(c, u) ==
    Authenticated(c, "keys", u, [users[u] EXCEPT !.key = << >>])

DisconnectExchange(c, u) ==
    Authenticated(c, "keys", u, [users[u] EXCEPT !.key = << >>, !.secret = << >>, !.testnet = FALSE])

\* The bot is asked who it is and sends the chat a test message first.
SaveTelegram(c, u, chat) ==
    Authenticated(c, "telegram", u, [users[u] EXCEPT !.bot = <<fresh, chat>>, !.chat = chat])

RemoveTelegram(c, u) ==
    Authenticated(c, "telegram", u, [users[u] EXCEPT !.bot = << >>, !.chat = 0])

\* toggle-admin, toggle-active, and the edit of a user's fields.
Administrate(c, u) ==
    /\ users[u].there
    /\ \/ Load(c, "admin", u, [users[u] EXCEPT !.admin = ~users[u].admin])
       \/ Load(c, "admin", u, [users[u] EXCEPT !.active = ~users[u].active])
       \/ \E e \in Emails : Load(c, "admin", u, [users[u] EXCEPT !.email = e])

-----------------------------------------------------------------------------
(***************************************************************************)
(* From the first flush to the commit.                                     *)
(***************************************************************************)

To(c, stage) == request' = [request EXCEPT ![c].stage = stage] /\ UNCHANGED behind
Rollback(c) == request' = [request EXCEPT ![c] = Idle] /\ behind' = behind \ {c}
rest == <<users, referrals, column, made, proven, lost, crossed>>

\* validate_api_keys, validate_telegram_bot and the test message refuse what
\* they are given, after seconds in which the row has been loaded already.
Refuse(c) ==
    request[c].stage = "loaded" /\ request[c].kind \in {"keys", "telegram"} /\ Rollback(c) /\ UNCHANGED rest

\* Where the handler goes on after its first flush.
Onward(q) == IF q.kind \in {"register", "generate"} THEN "inserted" ELSE "written"

\* The row is only added to the session: the database sees it at the commit.
FlushAtCommit(c) == request[c].stage = "loaded" /\ To(c, Onward(request[c])) /\ UNCHANGED rest

Flush(c) ==
    /\ request[c].stage = "loaded" /\ ~Blocked(c)
    /\ IF Taken(request[c]) \/ TooLong(request[c]) THEN Rollback(c) ELSE To(c, Onward(request[c]))
    /\ UNCHANGED rest

\* The referrer is read, then written with one referral more.
FindReferrer(c) ==
    /\ request[c].stage = "inserted" /\ request[c].code
    /\ request' = [request EXCEPT ![c].stage = "found", ![c].seen = referrals]
    /\ UNCHANGED <<rest, behind>>

AttachReferral(c) ==
    /\ request[c].stage = "found"
    /\ \A d \in Clients \ {c} : request[d].code => request[d].stage \notin {"attached", "written", "answered"}
    /\ request' = [request EXCEPT ![c].stage = "attached", ![c].new.referred = TRUE]
    /\ UNCHANGED <<rest, behind>>

\* register stores its verification code in a flush of its own and mails it;
\* generate_wallet has nothing more to write.
SendCode(c) ==
    LET q == request[c]
        new == IF q.kind = "register" THEN [q.new EXCEPT !.code = <<q.no, q.new.email>>] ELSE q.new
    IN  /\ q.stage = IF q.code THEN "attached" ELSE "inserted"
        /\ IF TooLong([q EXCEPT !.new = new]) THEN Rollback(c)
           ELSE request' = [request EXCEPT ![c].stage = "written", ![c].new = new] /\ UNCHANGED behind
        /\ UNCHANGED rest

Answer(c) == request[c].stage = "written" /\ To(c, "answered") /\ UNCHANGED rest

\* History: whoever has the same matter in hand works on old values from now on,
\* and who did so until now leaves it crossed; keys, a bot and an address that
\* are written anew from what is stored are whole again.
Cross(c) ==
    LET q == request[c]
    IN  /\ behind' = (behind \ {c}) \union {d \in Clients \ {c} : Open(d) /\ Shared(q, request[d])}
        /\ crossed' = IF c \in behind THEN crossed \union {<<q.user, Matter(q)>>}
                      ELSE IF q.kind \in {"keys", "telegram", "submit"} THEN crossed \ {<<q.user, Matter(q)>>}
                      ELSE crossed

Commit(c) ==
    LET q == request[c]
    IN  /\ q.stage = "answered"
        /\ request' = [request EXCEPT ![c] = Idle]
        /\ IF Taken(q) THEN UNCHANGED <<users, referrals, proven, crossed>> /\ behind' = behind \ {c}
           ELSE /\ users' = [users EXCEPT ![q.user] = Merged(users[q.user], q.view, q.new)]
                /\ referrals' = IF q.new.referred /\ ~q.view.referred THEN q.seen + 1 ELSE referrals
                /\ proven' = proven \union
                       (IF q.kind = "verify" THEN {<<q.user, q.view.code[2]>>}
                        ELSE IF q.kind = "admin" /\ q.new.email # q.view.email THEN {<<q.user, q.new.email>>}
                        ELSE {})
                /\ Cross(c)
        /\ UNCHANGED <<column, made, lost>>

\* The process dies, or the connection to the database, after the first flush
\* (before it nothing is lost).
Die(c) ==
    /\ request[c].stage \in Flushed /\ Rollback(c)
    /\ lost' = IF request[c].stage = "answered" THEN lost \union {request[c].user} ELSE lost
    /\ UNCHANGED <<users, referrals, column, made, proven, crossed>>

Arrive(c) ==
    \E u \in Users :
        \/ \E e \in Emails, code \in BOOLEAN : Register(c, u, e, code)
        \/ \E code \in BOOLEAN : GenerateWallet(c, u, code)
        \/ \E w \in Wallets : ConnectWallet(c, u, w) \/ SignInWithWallet(c, u, w)
        \/ \E e \in Emails : SubmitEmail(c, u, e)
        \/ VerifyEmail(c, u) \/ ForgotPassword(c, u) \/ ResetPassword(c, u)
        \/ \E net \in BOOLEAN : ConnectExchange(c, u, net)
        \/ DisconnectExchange(c, u)
        \/ \E chat \in Chats : SaveTelegram(c, u, chat)
        \/ RemoveTelegram(c, u)
        \/ Administrate(c, u)

Proceed(c) ==
    \/ Refuse(c) \/ Flush(c) \/ FindReferrer(c) \/ AttachReferral(c) \/ SendCode(c) \/ Answer(c)
    \/ Commit(c)

Next == \E c \in Clients : Arrive(c) \/ Proceed(c) \/ Die(c)

\* The commit behind an answer is on its way; nothing else has to happen.
Fairness == \A c \in Clients : WF_vars(Commit(c))

Spec == Init /\ [][Next]_vars
FairSpec == Spec /\ Fairness

-----------------------------------------------------------------------------
(***************************************************************************)
(* What has to hold.                                                       *)
(***************************************************************************)

\* An e-mail and a wallet belong to one account, however signups, wallet
\* sign-ins, changes of the e-mail and an administrator's edits overlap:
\* login, forgot_password and connect_wallet fail on a second one
\* (scalar_one_or_none).
OneAccountPerIdentity ==
    \A u, v \in Users : (u # v /\ users[u].there /\ users[v].there) =>
        /\ users[u].email = users[v].email => users[u].email = ""
        /\ users[u].wallet = users[v].wallet => users[u].wallet = 0

\* A verified address is one whose own code was entered (or that an administrator
\* has set), although codes of earlier addresses are around and requests of one
\* user overlap: it takes a submit_email or verify_email that commits on an address
\* which the other has changed since it was loaded, and lasts until the user
\* submits an address again.
VerifiedByOwnCode ==
    \A u \in Users : users[u].verified => <<u, users[u].email>> \in proven \/ <<u, "address">> \in crossed

\* Key, secret and environment come from one connect request, the chat is the one
\* the bot was tried out with, whatever administrators change in the row at the
\* same time (connect_bybit, connect_binance, save_telegram_config); only a request
\* that commits on keys, or a bot, which the same user's other request has changed
\* since it was loaded mixes the two, and the next one sets it right.
KeysMatch(r) == r.key = r.secret /\ (r.key # << >> => r.testnet = r.key[2])
BotMatches(r) == r.bot # << >> => r.chat = r.bot[2]

CredentialsMatch ==
    \A u \in Users : /\ KeysMatch(users[u]) \/ <<u, "keys">> \in crossed
                     /\ BotMatches(users[u]) \/ <<u, "bot">> \in crossed

\* The referrer's count never exceeds the number of accounts attached to his code,
\* also when a signup fails after the count was raised, and falls behind it only by
\* a signup that read the count before another one raised it
\* (_attach_referral_ambassador).
ReferralsCounted ==
    LET attached == Cardinality({u \in Users : users[u].referred})
    IN  /\ referrals <= attached
        /\ referrals = attached \/ \E u \in Users : <<u, "count">> \in crossed

\* What signups leave behind, however they overlap and fail.
SignupsAgree == OneAccountPerIdentity /\ ReferralsCounted

\* Only an administrator's commit changes whether an account is active or an
\* administrator's: a user's request that loaded the row before never puts
\* the old value back (admin_toggle_active, admin_toggle_admin).
SwitchesStand ==
    [][\A u \in Users :
          (users[u].there /\ <<users[u].active, users[u].admin>> # <<users'[u].active, users'[u].admin>>)
          => \E c \in Clients : request[c].kind = "admin" /\ request[c].user = u /\ request'[c].stage = "idle"]_vars

\* A signup that was answered with tokens is stored, unless its process dies
\* first: nothing can refuse it any more at the commit, which comes after the
\* answer (register, generate_wallet, connect_wallet).
AnswersAreStored ==
    \A u \in Users :
        (\E c \in Clients : /\ request[c].stage = "answered"
                            /\ request[c].user = u /\ ~request[c].view.there)
        ~> (users[u].there \/ u \in lost)
=============================================================================
