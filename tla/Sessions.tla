------------------------------- MODULE Sessions -------------------------------
(***************************************************************************)
(* Password reset codes and tokens of the accounts application             *)
(* (accounts/serializers.py, utils.py, views.py, token_services.py,        *)
(* authentication.py).  Every statement of a reset commits by itself, and  *)
(* nothing is locked: a request works on the row it has read.  A logout is *)
(* one transaction.                                                        *)
(***************************************************************************)
EXTENDS Integers

CONSTANTS
    Holders,     \* users
    Codes,       \* raw reset tokens; each is generated once
    Logins,      \* logins that succeed; each issues a refresh token and an access token
    Renewals,    \* bound on the access tokens of a login
    Servers,     \* requests in progress at a time
    NoCodeRow

Tokens == [type : {"refresh"}, login : Logins, n : {0}]
          \cup [type : {"access"}, login : Logins, n : 0 .. Renewals]

VARIABLES
    credentials, \* password and must_change_password of each User row
    reset_codes, \* PasswordResetCode rows
    generated,   \* the codes that have been generated
    mailed,      \* the codes somebody has received
    issued,      \* tokens that have been issued, with their user
    blacklist,   \* BlacklistedToken
    attending    \* what each request is doing

sessionVars == <<credentials, reset_codes, generated, mailed, issued, blacklist, attending>>

\* A password is named for the code that set it.
UserRow == [password : {"initial"} \cup Codes, must_change_password : BOOLEAN]
PasswordResetCode == [user : Holders, opened : BOOLEAN, used : BOOLEAN, expired : BOOLEAN]

ASSUME SessionsAssumption == Renewals \in Nat /\ NoCodeRow \notin PasswordResetCode

Opened(row) ==
    [user |-> row.user, opened |-> TRUE, used |-> row.used, expired |-> row.expired]
Used(row) ==
    [user |-> row.user, opened |-> row.opened, used |-> TRUE, expired |-> row.expired]
Expired(row) ==
    [user |-> row.user, opened |-> row.opened, used |-> row.used, expired |-> TRUE]

NotAttending == [op |-> "NONE"]
Requesting == [op : {"REQUEST", "CREATE"}, user : Holders]
Sending == [op : {"SEND", "WITHDRAW", "SPEND"}, code : Codes]
Reading == [op : {"OPEN", "CONFIRM"}, code : Codes, row : PasswordResetCode]
Editing == [op : {"EDIT"}, user : Holders, row : UserRow]
LoggingOut ==
    [op : {"LOGOUT"}, access : Tokens, refresh : Tokens, inserted : SUBSET Tokens]
Attending == {NotAttending} \cup Requesting \cup Sending \cup Reading \cup Editing \cup LoggingOut

SessionsTypeOK ==
    /\ credentials \in [Holders -> UserRow]
    /\ reset_codes \in [Codes -> PasswordResetCode \cup {NoCodeRow}]
    /\ generated \subseteq Codes /\ mailed \subseteq Codes
    /\ issued \subseteq Holders \X Tokens
    /\ blacklist \subseteq Tokens
    /\ attending \in [Servers -> Attending]

Attend(s, r) == attending' = [attending EXCEPT ![s] = r]

-----------------------------------------------------------------------------
(* A code is requested: by the user, or by a login with a default password. *)

ForgotPassword(s, u) ==
    /\ attending[s] = NotAttending
    /\ Attend(s, [op |-> "REQUEST", user |-> u])
    /\ UNCHANGED <<credentials, reset_codes, generated, mailed, issued, blacklist>>

handle_default_password_login(s, u) ==
    /\ credentials[u].must_change_password
    /\ ForgotPassword(s, u)

delete_unused_codes(s) ==
    /\ attending[s].op = "REQUEST"
    /\ reset_codes' = [c \in Codes |->
           IF reset_codes[c] # NoCodeRow /\ reset_codes[c].user = attending[s].user
              /\ ~reset_codes[c].used
           THEN NoCodeRow ELSE reset_codes[c]]
    /\ Attend(s, [op |-> "CREATE", user |-> attending[s].user])
    /\ UNCHANGED <<credentials, generated, mailed, issued, blacklist>>

create_password_reset_code(s, c) ==
    /\ attending[s].op = "CREATE" /\ c \notin generated
    /\ generated' = generated \cup {c}
    /\ reset_codes' = [reset_codes EXCEPT ![c] =
           [user |-> attending[s].user, opened |-> FALSE, used |-> FALSE, expired |-> FALSE]]
    /\ Attend(s, [op |-> "SEND", code |-> c])
    /\ UNCHANGED <<credentials, mailed, issued, blacklist>>

\* The e-mail may arrive although the provider's answer is lost.
send_password_reset_email(s) ==
    /\ attending[s].op = "SEND"
    /\ \/ /\ mailed' = mailed \cup {attending[s].code}
          /\ Attend(s, NotAttending)
       \/ /\ mailed' \in {mailed, mailed \cup {attending[s].code}}
          /\ Attend(s, [op |-> "WITHDRAW", code |-> attending[s].code])
    /\ UNCHANGED <<credentials, reset_codes, generated, issued, blacklist>>

\* reset_code.delete() deletes the row as it is by now.
withdraw_code(s) ==
    /\ attending[s].op = "WITHDRAW"
    /\ reset_codes' = [reset_codes EXCEPT ![attending[s].code] = NoCodeRow]
    /\ Attend(s, NotAttending)
    /\ UNCHANGED <<credentials, generated, mailed, issued, blacklist>>

-----------------------------------------------------------------------------
(* A code is verified and confirmed.                                       *)

Valid(row) == row # NoCodeRow /\ ~row.used /\ ~row.expired

\* The row as read goes with the request.
get_valid_password_reset_code(s, c, op) ==
    /\ attending[s] = NotAttending
    /\ c \in mailed /\ Valid(reset_codes[c])
    /\ Attend(s, [op |-> op, code |-> c, row |-> reset_codes[c]])
    /\ UNCHANGED <<credentials, reset_codes, generated, mailed, issued, blacklist>>

PasswordResetVerify(s, c) ==
    /\ get_valid_password_reset_code(s, c, "OPEN")
    /\ ~reset_codes[c].opened

\* A mutation of save_opened_at: without update_fields the whole row that was read
\* is saved, and inserted again if it is gone.
save_opened_row(s) ==
    /\ attending[s].op = "OPEN"
    /\ reset_codes' = [reset_codes EXCEPT ![attending[s].code] = Opened(attending[s].row)]
    /\ Attend(s, NotAttending)
    /\ UNCHANGED <<credentials, generated, mailed, issued, blacklist>>

\* save(update_fields) of a deleted row fails.
save_opened_at(s) ==
    LET c == attending[s].code IN
    /\ attending[s].op = "OPEN"
    /\ reset_codes' = IF reset_codes[c] = NoCodeRow THEN reset_codes
                      ELSE [reset_codes EXCEPT ![c] = Opened(@)]
    /\ Attend(s, NotAttending)
    /\ UNCHANGED <<credentials, generated, mailed, issued, blacklist>>

PasswordResetConfirm(s, c) == get_valid_password_reset_code(s, c, "CONFIRM")

save_password(s) ==
    LET c == attending[s].code IN
    /\ attending[s].op = "CONFIRM"
    /\ credentials' = [credentials EXCEPT ![attending[s].row.user] =
           [password |-> c, must_change_password |-> FALSE]]
    /\ Attend(s, [op |-> "SPEND", code |-> c])
    /\ UNCHANGED <<reset_codes, generated, mailed, issued, blacklist>>

\* If the row is gone the request fails, after the password has changed.
save_used_at(s) ==
    LET c == attending[s].code IN
    /\ attending[s].op = "SPEND"
    /\ reset_codes' = IF reset_codes[c] = NoCodeRow THEN reset_codes
                      ELSE [reset_codes EXCEPT ![c] = Used(@)]
    /\ Attend(s, NotAttending)
    /\ UNCHANGED <<credentials, generated, mailed, issued, blacklist>>

code_expires(c) ==
    /\ reset_codes[c] # NoCodeRow
    /\ reset_codes' = [reset_codes EXCEPT ![c] = Expired(@)]
    /\ UNCHANGED <<credentials, generated, mailed, issued, blacklist, attending>>

\* UserWriteSerializer saves the whole row the view has read, password included.
edit_user(s, u) ==
    /\ attending[s] = NotAttending
    /\ Attend(s, [op |-> "EDIT", user |-> u, row |-> credentials[u]])
    /\ UNCHANGED <<credentials, reset_codes, generated, mailed, issued, blacklist>>

save_user(s) ==
    /\ attending[s].op = "EDIT"
    /\ credentials' = [credentials EXCEPT ![attending[s].user] = attending[s].row]
    /\ Attend(s, NotAttending)
    /\ UNCHANGED <<reset_codes, generated, mailed, issued, blacklist>>

-----------------------------------------------------------------------------
(* Tokens.                                                                 *)

Token(type, i, n) == [type |-> type, login |-> i, n |-> n]

HolanTokenObtainPair(u, i) ==
    /\ ~credentials[u].must_change_password
    /\ \A token \in issued : token[2].login # i
    /\ issued' = issued \cup {<<u, Token("refresh", i, 0)>>, <<u, Token("access", i, 0)>>}
    /\ UNCHANGED <<credentials, reset_codes, generated, mailed, blacklist, attending>>

TokenRefresh(i, n) ==
    /\ \E u \in Holders :
           /\ <<u, Token("refresh", i, 0)>> \in issued
           /\ Token("refresh", i, 0) \notin blacklist
           /\ issued' = issued \cup {<<u, Token("access", i, n)>>}
    /\ UNCHANGED <<credentials, reset_codes, generated, mailed, blacklist, attending>>

\* The tokens must be of one user, and neither has expired; they may be of two
\* logins, and may be revoked already.
Logout(s, access, refresh) ==
    /\ attending[s] = NotAttending
    /\ access.type = "access" /\ refresh.type = "refresh"
    /\ \E u \in Holders : {<<u, access>>, <<u, refresh>>} \subseteq issued
    /\ Attend(s, [op |-> "LOGOUT", access |-> access, refresh |-> refresh, inserted |-> {}])
    /\ UNCHANGED <<credentials, reset_codes, generated, mailed, issued, blacklist>>

BeingRevoked(s) == IF attending[s].op = "LOGOUT" THEN attending[s].inserted ELSE {}

\* The access token comes first.
NextToken(s) ==
    IF attending[s].inserted = {} THEN attending[s].access ELSE attending[s].refresh
Inserting(s, token) ==
    [op |-> "LOGOUT", access |-> attending[s].access, refresh |-> attending[s].refresh,
     inserted |-> attending[s].inserted \cup {token}]

\* A mutation of _blacklist_token: without the transaction a row counts at once.
blacklist_at_once(s, token) ==
    /\ attending[s].op = "LOGOUT" /\ token = NextToken(s)
    /\ blacklist' = blacklist \cup {token}
    /\ Attend(s, Inserting(s, token))
    /\ UNCHANGED <<credentials, reset_codes, generated, mailed, issued>>

\* get_or_create waits for a transaction that has inserted the same token.
_blacklist_token(s, token) ==
    /\ attending[s].op = "LOGOUT" /\ token = NextToken(s)
    /\ \A t \in Servers \ {s} : token \notin BeingRevoked(t)
    /\ Attend(s, Inserting(s, token))
    /\ UNCHANGED <<credentials, reset_codes, generated, mailed, issued, blacklist>>

revoke_token_pair(s) ==
    /\ attending[s].op = "LOGOUT"
    /\ attending[s].inserted = {attending[s].access, attending[s].refresh}
    /\ blacklist' = blacklist \cup attending[s].inserted
    /\ Attend(s, NotAttending)
    /\ UNCHANGED <<credentials, reset_codes, generated, mailed, issued>>

\* A process may end between any two statements; an open transaction is undone.
server_ends(s) ==
    /\ attending[s] # NotAttending
    /\ Attend(s, NotAttending)
    /\ UNCHANGED <<credentials, reset_codes, generated, mailed, issued, blacklist>>

-----------------------------------------------------------------------------
SessionsInit ==
    /\ credentials \in [Holders -> [password : {"initial"}, must_change_password : BOOLEAN]]
    /\ reset_codes = [c \in Codes |-> NoCodeRow]
    /\ generated = {} /\ mailed = {}
    /\ issued = {} /\ blacklist = {}
    /\ attending = [s \in Servers |-> NotAttending]

ResetsNext ==
    \/ \E c \in Codes : code_expires(c)
    \/ \E s \in Servers :
           \/ \E u \in Holders :
                  ForgotPassword(s, u) \/ handle_default_password_login(s, u) \/ edit_user(s, u)
           \/ \E c \in Codes :
                  \/ create_password_reset_code(s, c)
                  \/ PasswordResetVerify(s, c) \/ PasswordResetConfirm(s, c)
           \/ delete_unused_codes(s) \/ send_password_reset_email(s) \/ withdraw_code(s)
           \/ save_opened_at(s) \/ save_password(s) \/ save_used_at(s) \/ save_user(s)
           \/ server_ends(s)

TokensNext ==
    \/ \E u \in Holders, i \in Logins : HolanTokenObtainPair(u, i)
    \/ \E i \in Logins, n \in 1 .. Renewals : TokenRefresh(i, n)
    \/ \E s \in Servers :
           \/ \E access, refresh \in Tokens : Logout(s, access, refresh)
           \/ \E token \in Tokens : _blacklist_token(s, token)
           \/ revoke_token_pair(s) \/ server_ends(s)

SessionsNext == ResetsNext \/ TokensNext

SessionsSpec == SessionsInit /\ [][SessionsNext]_sessionVars

-----------------------------------------------------------------------------
(* Properties.                                                             *)

\* A reset code that was used, has expired or was replaced is never accepted again,
\* whatever requests that read its row before still write to it.
SpentStaysSpent ==
    [][\A c \in generated : ~Valid(reset_codes[c]) => ~Valid(reset_codes[c])']_sessionVars

\* A logout revokes two tokens or none: no process that ends leaves a session with
\* one of them.
LogoutIsWhole ==
    \A token \in issued : token[2] \in blacklist =>
        \E other \in issued :
            other[1] = token[1] /\ other[2].type # token[2].type /\ other[2] \in blacklist

(* The second needs that the tokens of a login have one user, and that a logout    *)
(* has checked its two.                                                            *)

OneHolder == \A x, y \in issued : x[2].login = y[2].login => x[1] = y[1]

PairsAreChecked ==
    \A s \in Servers : attending[s].op = "LOGOUT" =>
        /\ attending[s].access.type = "access" /\ attending[s].refresh.type = "refresh"
        /\ \E u \in Holders :
               {<<u, attending[s].access>>, <<u, attending[s].refresh>>} \subseteq issued

RevokedWereIssued == \A token \in blacklist : \E u \in Holders : <<u, token>> \in issued

SessionsInvariant ==
    /\ SessionsTypeOK
    /\ OneHolder /\ PairsAreChecked /\ RevokedWereIssued
    /\ LogoutIsWhole

=============================================================================
