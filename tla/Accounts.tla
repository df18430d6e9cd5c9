------------------------------ MODULE Accounts ------------------------------
(***************************************************************************)
(* One account of the cloud (cloud_server/api/auth.py, oauth_service.py,   *)
(* admin_service.py): registration, verification of the address, login,    *)
(* rotation of refresh tokens, password reset.  The routes run in worker   *)
(* threads, one transaction each: login, rotation and reset read first and *)
(* commit later, so other transactions may commit in between.              *)
(* Names ending in "Mutant" are faulty variants of what follows them.      *)
(***************************************************************************)
EXTENDS Naturals, FiniteSets

CONSTANTS
    Rows,          \* identities of refresh_tokens rows
    Workers,       \* worker threads with a login, a rotation or a reset
    Idle,          \* a worker without one
    MaxPasswords,  \* bound: passwords the account has had
    MaxLinks,      \* bound: password reset links at the same time
    MaxLogins      \* logins an address may try within the rate limiter's window

ASSUME AccountAssumption ==
    /\ MaxPasswords \in Nat \ {0}
    /\ MaxLinks \in Nat
    /\ MaxLogins \in Nat \ {0}

VARIABLES
    account,    \* "none", "unverified" or "verified"
    active,     \* is_active
    password,   \* number of the current password, 0 for an OAuth-only account
    mailLink,   \* the verification token: "none", "fresh", "used" or "expired"
    resetLinks, \* password_reset_tokens that are fresh
    rows,       \* rows[i]: password under which the row's login was made, or NoRow
    handling,    \* handling[w]: what worker w has read
    raced,      \* stored rows whose request, or an ancestor's, overlapped a reset
    attempts    \* logins in the limiter's window

accountVars == <<account, active, password, mailLink, resetLinks, rows, handling,
                 raced, attempts>>

NoRow == MaxPasswords + 1
Stored == {i \in Rows : rows[i] # NoRow}
Busy == {w \in Workers : handling[w] # Idle}
Free == Rows \ (Stored \union UNION {handling[w].deletes : w \in Busy})

\* A request between its read and its commit: the rows it deletes, the password that
\* it has verified or whose session it continues, the link that a reset uses, and, a
\* mark of history, did a reset commit since, or overlap the session it continues?
Request ==
    [kind : {"login", "rotation", "reset"}, deletes : SUBSET Rows,
     password : 0 .. MaxPasswords, link : 0 .. MaxLinks, late : BOOLEAN]

AccountTypeOK ==
    /\ account \in {"none", "unverified", "verified"}
    /\ active \in BOOLEAN
    /\ password \in 0 .. MaxPasswords
    /\ mailLink \in {"none", "fresh", "used", "expired"}
    /\ resetLinks \subseteq 1 .. MaxLinks
    /\ rows \in [Rows -> 0 .. NoRow]
    /\ handling \in [Workers -> Request \union {Idle}]
    /\ raced \subseteq Rows
    /\ attempts \in 0 .. MaxLogins

AccountInit ==
    /\ account = "none"
    /\ active = TRUE
    /\ password = 0
    /\ mailLink = "none"
    /\ resetLinks = {}
    /\ rows = [i \in Rows |-> NoRow]
    /\ handling = [w \in Workers |-> Idle]
    /\ raced = {}
    /\ attempts = 0

----------------------------------------------------------------------------
\* register: a new, unverified account and the token of its verification mail.
RegisterAccount ==
    /\ account = "none"
    /\ account' = "unverified"
    /\ password' = 1
    /\ mailLink' = "fresh"
    /\ UNCHANGED <<active, resetLinks, rows, handling, raced, attempts>>

\* verify_email: a token works once.
VerifyEmail ==
    /\ mailLink = "fresh"
    /\ mailLink' = "used"
    /\ account' = "verified"
    /\ UNCHANGED <<active, password, resetLinks, rows, handling, raced, attempts>>

LinkExpires ==
    /\ \/ mailLink = "fresh" /\ mailLink' = "expired" /\ UNCHANGED resetLinks
       \/ \E l \in resetLinks : resetLinks' = resetLinks \ {l} /\ UNCHANGED mailLink
    /\ UNCHANGED <<account, active, password, rows, handling, raced, attempts>>

Begin(w, kind, deletes, pw, link, late) ==
    /\ handling[w] = Idle
    /\ handling' = [handling EXCEPT ![w] =
                      [kind |-> kind, deletes |-> deletes, password |-> pw, link |-> link,
                       late |-> late]]

\* login reads the account and verifies the password; every attempt counts for the
\* limiter.
BeginLogin(w) ==
    /\ attempts < MaxLogins
    /\ attempts' = attempts + 1
    /\ account = "verified"
    /\ active
    /\ password # 0
    /\ Begin(w, "login", {}, password, 0, FALSE)
    /\ UNCHANGED <<account, active, password, mailLink, resetLinks, rows, raced>>

\* A new row of a session under password pw.
NewRow(i, pw, late) ==
    /\ i \in Free
    /\ rows' = [rows EXCEPT ![i] = pw]
    /\ raced' = IF late THEN raced \union {i} ELSE raced

\* The row is inserted and the transaction commits.
EndLogin(w, i) ==
    /\ handling[w] # Idle
    /\ handling[w].kind = "login"
    /\ NewRow(i, handling[w].password, handling[w].late)
    /\ handling' = [handling EXCEPT ![w] = Idle]
    /\ UNCHANGED <<account, active, password, mailLink, resetLinks, attempts>>

\* The commit, or what comes before it, fails: rolled back.
RequestFails(w) ==
    /\ handling[w] # Idle
    /\ handling' = [handling EXCEPT ![w] = Idle]
    /\ UNCHANGED <<account, active, password, mailLink, resetLinks, rows, raced, attempts>>

\* A refused login: wrong password, unverified or inactive account.
LoginRefused ==
    /\ attempts < MaxLogins
    /\ attempts' = attempts + 1
    /\ UNCHANGED <<account, active, password, mailLink, resetLinks, rows, handling,
                   raced>>

LimiterWindowMoves ==
    /\ attempts > 0
    /\ attempts' = attempts - 1
    /\ UNCHANGED <<account, active, password, mailLink, resetLinks, rows, handling,
                   raced>>

\* login_or_register: the provider vouches for the address.  Neither is_active nor
\* deleted_at is looked at, nor is a password: the row counts for the one of its commit.
OAuthLogin(i) ==
    /\ account' = "verified"
    /\ NewRow(i, password, FALSE)
    /\ UNCHANGED <<active, password, mailLink, resetLinks, handling, attempts>>

\* refresh reads the row of the presented token.
BeginRotation(w, i) ==
    /\ i \in Stored
    /\ Begin(w, "rotation", {i}, rows[i], 0, i \in raced)
    /\ UNCHANGED <<account, active, password, mailLink, resetLinks, rows, raced, attempts>>

\* DELETE and INSERT commit.  A row that another transaction has deleted meanwhile
\* is no error: the successor is inserted all the same.
EndRotation(w, j) ==
    /\ handling[w] # Idle
    /\ handling[w].kind = "rotation"
    /\ j \in Free
    /\ rows' = [i \in Rows |-> IF i = j THEN handling[w].password
                              ELSE IF i \in handling[w].deletes THEN NoRow ELSE rows[i]]
    /\ raced' = (raced \ handling[w].deletes) \union (IF handling[w].late THEN {j} ELSE {})
    /\ handling' = [handling EXCEPT ![w] = Idle]
    /\ UNCHANGED <<account, active, password, mailLink, resetLinks, attempts>>

\* logout, and the expiry of a refresh token after 30 days.
DropRow(i) ==
    /\ i \in Stored
    /\ rows' = [rows EXCEPT ![i] = NoRow]
    /\ raced' = raced \ {i}
    /\ UNCHANGED <<account, active, password, mailLink, resetLinks, handling, attempts>>

\* forgot_password: one more link, which no reset under way has read.
ForgotPassword ==
    /\ account # "none"
    /\ \E l \in 1 .. MaxLinks :
          /\ l \notin resetLinks
          /\ \A w \in Busy : handling[w].link # l
          /\ resetLinks' = resetLinks \union {l}
    /\ UNCHANGED <<account, active, password, mailLink, rows, handling, raced, attempts>>

\* reset_password reads the link and sends its DELETE, which takes the rows of that
\* moment; the new password is written with the commit (autoflush is off).
BeginReset(w, l) ==
    /\ l \in resetLinks
    /\ Begin(w, "reset", Stored, password, l, FALSE)
    /\ UNCHANGED <<account, active, password, mailLink, resetLinks, rows, raced, attempts>>

\* The sessions stay.
RowsAfterResetMutant(w) == rows

RowsAfterReset(w) == [i \in Rows |-> IF i \in handling[w].deletes THEN NoRow ELSE rows[i]]

\* The commit: a new password, the link is used up, the sessions end.  Rows that were
\* committed since the DELETE stay, and requests under way go on.
EndReset(w) ==
    /\ handling[w] # Idle
    /\ handling[w].kind = "reset"
    /\ password < MaxPasswords
    /\ password' = password + 1
    /\ resetLinks' = resetLinks \ {handling[w].link}
    /\ rows' = RowsAfterReset(w)
    /\ raced' = Stored \ handling[w].deletes
    /\ handling' = [v \in Workers |->
                     IF v = w \/ handling[v] = Idle THEN Idle
                     ELSE [handling[v] EXCEPT !.late = TRUE]]
    /\ UNCHANGED <<account, active, mailLink, attempts>>

\* set_user_active of an administrator.
SetActive ==
    /\ account # "none"
    /\ active' = ~active
    /\ UNCHANGED <<account, password, mailLink, resetLinks, rows, handling, raced,
                   attempts>>

AccountNext ==
    \/ RegisterAccount \/ VerifyEmail \/ LinkExpires
    \/ \E w \in Workers :
          \/ BeginLogin(w) \/ EndReset(w) \/ RequestFails(w)
          \/ \E i \in Rows : EndLogin(w, i) \/ BeginRotation(w, i) \/ EndRotation(w, i)
          \/ \E l \in 1 .. MaxLinks : BeginReset(w, l)
    \/ \E i \in Rows : OAuthLogin(i) \/ DropRow(i)
    \/ LoginRefused \/ LimiterWindowMoves
    \/ ForgotPassword
    \/ SetActive

AccountSpec == AccountInit /\ [][AccountNext]_accountVars

----------------------------------------------------------------------------
\* "All existing sessions end" with a password reset: every refresh token descends
\* from a login under the current password, unless a reset committed between the read
\* and the commit of its login or rotation, or between whose DELETE and commit it came.
SessionsUnderPassword == \A i \in Stored \ raced : rows[i] = password

\* So does every request under way that no reset has overlapped.
RequestsUnderPassword ==
    \A w \in Busy :
        ~handling[w].late /\ handling[w].kind # "reset" => handling[w].password = password

\* Nobody has a session, or is about to get one, before the address is verified.
SessionsAreVerified ==
    /\ Stored # {} => account = "verified"
    /\ \A w \in Busy : handling[w].kind # "reset" => account = "verified"

\* What holds of the account in every state.
AccountInv ==
    /\ AccountTypeOK
    /\ SessionsUnderPassword /\ RequestsUnderPassword
    /\ SessionsAreVerified
=============================================================================
