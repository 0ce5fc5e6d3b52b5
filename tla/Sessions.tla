------------------------------ MODULE Sessions ------------------------------
(***************************************************************************)
(* The sessions of one account, the ways it can sign in, and the one-time  *)
(* codes that reset its password.                                          *)
(*                                                                         *)
(* A session is a family of refresh tokens: each refresh replaces the live *)
(* token by the next one, and one that was replaced less than thirty       *)
(* seconds ago is answered with another token of the family.  Logout, the  *)
(* reuse of an old token, "end all sessions", a new password and the       *)
(* removal of a sign-in provider revoke tokens.  Each revocation is one    *)
(* UPDATE under READ COMMITTED: it goes over the rows its snapshot showed, *)
(* leaves out those that changed in between, and does not see new ones, so *)
(* snapshot and effect are two steps here.  Those that also write the      *)
(* account's row keep it locked between the two.                           *)
(*                                                                         *)
(* A handler in flight is a call slot.  The account has a verified email,  *)
(* and signing in by phone is switched on.  Left out: the lifetime of      *)
(* tokens and codes, the status of the account and its access tokens       *)
(* (Accounts), takeover of an unverified account by a provider, mails and  *)
(* audits.                                                                 *)
(***************************************************************************)
EXTENDS Naturals, FiniteSets

CONSTANTS
    Tokens,     \* refresh tokens that may ever be made
    Providers,  \* providers of identity: google, apple
    Calls,      \* slots for handlers in flight
    None,       \* the family of a token that was not made
    MaxCodes,   \* bound on the codes that are issued
    MaxTries    \* MAX_VERIFY_ATTEMPTS

ASSUME NoneAssumption == None \notin Tokens
ASSUME ProviderAssumption == {"password", "phone"} \cap Providers = {}
ASSUME BoundsAssumption == MaxCodes \in Nat /\ MaxTries \in Nat

VARIABLES
    methods,  \* the ways the account can sign in
    token,    \* each refresh token; rotated turns to spent after the grace period
    family,   \* the first token of its session
    graced,   \* history: sessions in which the grace period gave a second token
    ended,    \* history: sessions that were revoked
    late,     \* history: tokens that the revocation of their session could not see
    code,     \* each password-reset code, in the order of their making
    tries,    \* attempts at each code
    served,   \* history: how often a code was accepted
    call      \* what each handler in flight goes by

account  == <<methods>>
sessions == <<token, family, graced, ended, late>>
codes    == <<code, tries, served>>
vars     == <<methods, token, family, graced, ended, late, code, tries, served, call>>

Methods       == {"password", "phone"} \cup Providers
Codes         == 1..MaxCodes
TokenStatuses == {"none", "live", "rotated", "spent", "revoked"}
CodeStatuses  == {"none", "open", "used", "void"}
RowLocking    == {"change", "reset", "unlink"}
Idle          == [step |-> "idle"]

\* A revocation goes over the sessions in scope and has seen some live tokens; a
\* change of phone number was checked against the methods it saw.
CallStates ==
    {Idle}
    \cup [step : {"rotateRead", "grace"}, t : Tokens]
    \cup [step : {"issue", "resetting"}]
    \cup [step : {"revoke"}, op : {"logout", "all"} \cup RowLocking,
          scope : SUBSET Tokens, seen : SUBSET Tokens, m : Methods]
    \cup [step : {"unlinkRead"}, m : Providers]
    \cup [step : {"phoneChecked"}, saw : (SUBSET Methods) \ {{"phone"}}]
    \cup [step : {"codeRead"}, open : SUBSET Codes]
    \cup [step : {"verifyRead", "matched"}, c : Codes]

TypeOK ==
    /\ methods \subseteq Methods
    /\ token \in [Tokens -> TokenStatuses]
    /\ family \in [Tokens -> Tokens \cup {None}]
    /\ graced \subseteq Tokens /\ ended \subseteq Tokens /\ late \subseteq Tokens
    /\ code \in [Codes -> CodeStatuses]
    /\ tries \in [Codes -> 0..MaxTries]
    /\ served \in [Codes -> Nat]
    /\ call \in [Calls -> CallStates]

Init ==
    /\ methods \in (SUBSET Methods) \ {{}}
    /\ token = [t \in Tokens |-> "none"]
    /\ family = [t \in Tokens |-> None]
    /\ graced = {} /\ ended = {} /\ late = {}
    /\ code = [c \in Codes |-> "none"]
    /\ tries = [c \in Codes |-> 0] /\ served = [c \in Codes |-> 0]
    /\ call = [p \in Calls |-> Idle]

-----------------------------------------------------------------------------
Free(p)        == call[p] = Idle
At(p, step)    == call[p].step = step
Go(p, state)   == call' = [call EXCEPT ![p] = state]
Done(p)        == Go(p, Idle)

Used      == {t \in Tokens : token[t] # "none"}
Families  == {family[t] : t \in Used}
LiveIn(F) == {t \in Tokens : token[t] = "live" /\ family[t] \in F}
Revoking  == {p \in Calls : At(p, "revoke")}

\* Somebody holds the lock on the account's row.
RowLocked == \E p \in Revoking : call[p].op \in RowLocking

\* generateRefreshToken: a row in a session, its own if it is the first.  It is
\* late if a revocation of the session is under way, or if one has missed it.
Insert(n, f, missed) ==
    /\ token[n] = "none"
    /\ family' = [family EXCEPT ![n] = f]
    /\ late' = IF missed \/ \E q \in Revoking : f \in call[q].scope
               THEN late \cup {n} ELSE late

\* A revocation's snapshot: the sessions F, and the tokens of them live by now.
Snapshot(p, op, F, m) ==
    Go(p, [step |-> "revoke", op |-> op, scope |-> F, seen |-> LiveIn(F), m |-> m])

-----------------------------------------------------------------------------
(***************************************************************************)
(* Sign-in and refresh.                                                    *)
(***************************************************************************)
\* login and its siblings, up to the check of a password, provider or phone.
LoginRead(p) ==
    /\ Free(p) /\ methods # {}
    /\ Go(p, [step |-> "issue"])
    /\ UNCHANGED <<account, sessions, codes>>

\* The tail of a sign-in, a new password or an unlink: a session of its own.
IssueSession(p, n) ==
    /\ At(p, "issue")
    /\ Insert(n, n, FALSE)
    /\ token' = [token EXCEPT ![n] = "live"]
    /\ Done(p)
    /\ UNCHANGED <<account, graced, ended, codes>>

\* rotateRefreshToken, the read: a live token is to be replaced, one that was
\* replaced just now is answered again.
RotateRead(p, t) ==
    /\ Free(p)
    /\ \/ token[t] = "live" /\ Go(p, [step |-> "rotateRead", t |-> t])
       \/ token[t] = "rotated" /\ Go(p, [step |-> "grace", t |-> t])
    /\ UNCHANGED <<account, sessions, codes>>

\* Mutant: the token is marked by id.
RotateWriteById(p, n) ==
    /\ At(p, "rotateRead")
    /\ Insert(n, family[call[p].t], call[p].t \in late)
    /\ token' = [token EXCEPT ![call[p].t] = "rotated", ![n] = "live"]
    /\ Done(p)
    /\ UNCHANGED <<account, graced, ended, codes>>

\* ... the transaction that marks the token, if it is still live, and inserts
\* the next one.
RotateWrite(p, n) ==
    /\ At(p, "rotateRead") /\ token[call[p].t] = "live"
    /\ Insert(n, family[call[p].t], call[p].t \in late)
    /\ token' = [token EXCEPT ![call[p].t] = "rotated", ![n] = "live"]
    /\ Done(p)
    /\ UNCHANGED <<account, graced, ended, codes>>

\* ... and if it is not: another refresh was faster, or it was revoked.
RotateLost(p) ==
    /\ At(p, "rotateRead") /\ token[call[p].t] # "live"
    /\ IF token[call[p].t] = "revoked" THEN Done(p)
       ELSE Go(p, [step |-> "grace", t |-> call[p].t])
    /\ UNCHANGED <<account, sessions, codes>>

\* handleRevoked within the grace period: one more token of the session.
GraceIssue(p, n) ==
    LET f == family[call[p].t] IN
    /\ At(p, "grace")
    /\ Insert(n, f, f \in ended)
    /\ token' = [token EXCEPT ![n] = "live"]
    /\ graced' = graced \cup {f}
    /\ Done(p)
    /\ UNCHANGED <<account, ended, codes>>

\* REFRESH_GRACE_SECONDS have passed since a token was replaced.
GraceEnds(t) ==
    /\ token[t] = "rotated"
    /\ token' = [token EXCEPT ![t] = "spent"]
    /\ UNCHANGED <<account, family, graced, ended, late, codes, call>>

-----------------------------------------------------------------------------
(***************************************************************************)
(* Revocations: the snapshot, then the effect.                             *)
(***************************************************************************)
\* logout and revokeSession: the session of a token, and handleRevoked when a
\* token comes back after the grace period.
Logout(p, t) ==
    /\ Free(p) /\ t \in Used
    /\ Snapshot(p, "logout", {family[t]}, "password")
    /\ UNCHANGED <<account, sessions, codes>>

\* revokeAllSessions: the tokens first, then the account's row.
EndAll(p) ==
    /\ Free(p)
    /\ Snapshot(p, "all", Families, "password")
    /\ UNCHANGED <<account, sessions, codes>>

\* changePassword, after the current password was checked: the row, the tokens.
ChangePassword(p) ==
    /\ Free(p) /\ "password" \in methods /\ ~RowLocked
    /\ Snapshot(p, "change", Families, "password")
    /\ UNCHANGED <<account, sessions, codes>>

\* resetPassword, after the code was accepted: the row, the tokens.
ResetPassword(p) ==
    /\ At(p, "resetting") /\ ~RowLocked
    /\ Snapshot(p, "reset", Families, "password")
    /\ UNCHANGED <<account, sessions, codes>>

\* What every revocation does to the tokens.
Revoke(p) ==
    /\ At(p, "revoke")
    /\ token' = [t \in Tokens |->
            IF t \in call[p].seen /\ token[t] = "live" THEN "revoked" ELSE token[t]]
    /\ ended' = ended \cup call[p].scope
    /\ UNCHANGED <<family, graced, late, codes>>

\* Sessions end; "all" waits for the account's row before it commits.
EndSessions(p) ==
    /\ Revoke(p) /\ call[p].op \in {"logout", "all"}
    /\ call[p].op = "all" => ~RowLocked
    /\ Done(p)
    /\ UNCHANGED account

\* A new password; who changed it, and did not reset it, gets a new session.
SetPassword(p) ==
    /\ Revoke(p) /\ call[p].op \in {"change", "reset"}
    /\ methods' = methods \cup {"password"}
    /\ IF call[p].op = "change" THEN Go(p, [step |-> "issue"]) ELSE Done(p)

\* The provider is gone, and a new session follows.
DropProvider(p) ==
    /\ Revoke(p) /\ call[p].op = "unlink"
    /\ methods' = methods \ {call[p].m}
    /\ Go(p, [step |-> "issue"])

-----------------------------------------------------------------------------
(***************************************************************************)
(* Ways to sign in.                                                        *)
(***************************************************************************)
\* linkGoogle, linkApple: the provider is written by id.
LinkProvider(m) ==
    /\ m \notin methods /\ ~RowLocked
    /\ methods' = methods \cup {m}
    /\ UNCHANGED <<sessions, codes, call>>

\* verifyPhone: the number is the one that was verified.
VerifyPhone ==
    /\ "phone" \notin methods /\ ~RowLocked
    /\ methods' = methods \cup {"phone"}
    /\ UNCHANGED <<sessions, codes, call>>

\* unlinkGoogle, unlinkApple, the checks before the transaction.
UnlinkRead(p, m) ==
    /\ Free(p) /\ m \in methods /\ methods # {m}
    /\ Go(p, [step |-> "unlinkRead", m |-> m])
    /\ UNCHANGED <<account, sessions, codes>>

\* Mutant: the lock is taken and nothing read again.
UnlinkLockBlind(p) ==
    /\ At(p, "unlinkRead") /\ ~RowLocked
    /\ Snapshot(p, "unlink", Families, call[p].m)
    /\ UNCHANGED <<account, sessions, codes>>

\* ... SELECT ... FOR UPDATE and the same checks again.
UnlinkLock(p) ==
    /\ At(p, "unlinkRead") /\ ~RowLocked
    /\ call[p].m \in methods /\ methods # {call[p].m}
    /\ Snapshot(p, "unlink", Families, call[p].m)
    /\ UNCHANGED <<account, sessions, codes>>

\* updateProfile with a new phone number: a verified one may only go if there
\* is another way to sign in.
PhoneRead(p) ==
    /\ Free(p) /\ methods # {"phone"}
    /\ Go(p, [step |-> "phoneChecked", saw |-> methods])
    /\ UNCHANGED <<account, sessions, codes>>

\* ... the write: by id.
PhoneWrite(p) ==
    /\ At(p, "phoneChecked") /\ ~RowLocked
    /\ methods' = methods \ {"phone"}
    /\ Done(p)
    /\ UNCHANGED <<sessions, codes>>

-----------------------------------------------------------------------------
(***************************************************************************)
(* One-time codes.                                                         *)
(***************************************************************************)
OpenCodes == {c \in Codes : code[c] = "open"}

\* issue, the codes that are open as its transaction sees it.
IssueRead(p) ==
    /\ Free(p)
    /\ Go(p, [step |-> "codeRead", open |-> OpenCodes])
    /\ UNCHANGED <<account, sessions, codes>>

\* ... they are made void, those still open, and a new one follows.
IssueCode(p, c) ==
    /\ At(p, "codeRead")
    /\ code[c] = "none" /\ \A d \in 1..(c - 1) : code[d] # "none"
    /\ code' = [d \in Codes |->
            IF d = c THEN "open"
            ELSE IF d \in call[p].open /\ code[d] = "open" THEN "void" ELSE code[d]]
    /\ Done(p)
    /\ UNCHANGED <<account, sessions, tries, served>>

\* verify, the latest open code.
VerifyRead(p, c) ==
    /\ Free(p) /\ c \in OpenCodes /\ \A d \in OpenCodes : d <= c
    /\ Go(p, [step |-> "verifyRead", c |-> c])
    /\ UNCHANGED <<account, sessions, codes>>

\* Mutant: the attempts are not looked at when they are counted.
TryCodeCounting(p) ==
    LET c == call[p].c IN
    /\ At(p, "verifyRead") /\ code[c] = "open"
    /\ tries' = [tries EXCEPT ![c] = @ + 1]
    /\ Done(p) \/ Go(p, [step |-> "matched", c |-> c])
    /\ UNCHANGED <<account, sessions, code, served>>

\* verify, the attempt is counted while there are any left, and what was sent
\* compared.  Without one left the call ends (Fail).
TryCode(p) ==
    LET c == call[p].c IN
    /\ At(p, "verifyRead") /\ code[c] = "open" /\ tries[c] < MaxTries
    /\ tries' = [tries EXCEPT ![c] = @ + 1]
    /\ Done(p) \/ Go(p, [step |-> "matched", c |-> c])
    /\ UNCHANGED <<account, sessions, code, served>>

\* Mutant: the code is consumed by id.
ConsumeById(p) ==
    LET c == call[p].c IN
    /\ At(p, "matched")
    /\ code' = [code EXCEPT ![c] = "used"]
    /\ served' = [served EXCEPT ![c] = @ + 1]
    /\ Go(p, [step |-> "resetting"])
    /\ UNCHANGED <<account, sessions, tries>>

\* verify, the code is consumed unless another call did (Fail).
Consume(p) ==
    LET c == call[p].c IN
    /\ At(p, "matched") /\ code[c] = "open"
    /\ code' = [code EXCEPT ![c] = "used"]
    /\ served' = [served EXCEPT ![c] = @ + 1]
    /\ Go(p, [step |-> "resetting"])
    /\ UNCHANGED <<account, sessions, tries>>

\* A handler ends without its remaining steps: an error, a lost race, a process
\* that dies.  Nothing of an open transaction remains.
Fail(p) ==
    /\ ~Free(p)
    /\ Done(p)
    /\ UNCHANGED <<account, sessions, codes>>

-----------------------------------------------------------------------------
TokenNext ==
    \/ \E p \in Calls : LoginRead(p) \/ RotateLost(p)
    \/ \E p \in Calls, t \in Tokens :
        \/ RotateRead(p, t) \/ RotateWrite(p, t)
        \/ IssueSession(p, t) \/ GraceIssue(p, t)
    \/ \E t \in Tokens : GraceEnds(t)

RevokeNext ==
    \/ \E p \in Calls, t \in Tokens : Logout(p, t)
    \/ \E p \in Calls :
        \/ EndAll(p) \/ ChangePassword(p) \/ ResetPassword(p)
        \/ EndSessions(p) \/ SetPassword(p) \/ DropProvider(p)

MethodNext ==
    \/ \E m \in Providers : LinkProvider(m) \/ \E p \in Calls : UnlinkRead(p, m)
    \/ \E p \in Calls : UnlinkLock(p) \/ PhoneRead(p) \/ PhoneWrite(p)
    \/ VerifyPhone

CodeNext ==
    \/ \E p \in Calls, c \in Codes : IssueCode(p, c) \/ VerifyRead(p, c)
    \/ \E p \in Calls : IssueRead(p) \/ TryCode(p) \/ Consume(p)

Next == TokenNext \/ RevokeNext \/ MethodNext \/ CodeNext \/ \E p \in Calls : Fail(p)

Spec == Init /\ [][Next]_vars

-----------------------------------------------------------------------------
\* A session has one live token, however many refreshes of one token meet;
\* only the grace period gives it another.
OneLivePerSession ==
    \A t, u \in Tokens :
        /\ token[t] = "live" /\ token[u] = "live" /\ t # u
        /\ family[t] = family[u]
        => family[t] \in graced

\* No token of a session that was ended works any more, whatever refresh was in
\* flight as it ended: one that read its token before and writes after the end
\* finds it revoked.  What can be left is a token made between the snapshot and
\* the effect of the revocation, or by the grace period after it, or made from
\* such a token.
EndedStaysEnded ==
    \A t \in Tokens : token[t] = "live" /\ family[t] \in ended => t \in late

\* However removals of providers, new passwords and new phone numbers meet, an
\* account keeps a way to sign in: a change of number can take the last one,
\* and only if the ways to sign in changed since it looked at them.
LoginMethodRemains ==
    [][methods # {} /\ methods' = {} =>
        \E p \in Calls :
            At(p, "phoneChecked") /\ call[p].saw # methods /\ PhoneWrite(p)]_vars

\* A code is accepted once, although several calls may have compared it.
CodeServesOnce == \A c \in Codes : served[c] <= 1
=============================================================================
