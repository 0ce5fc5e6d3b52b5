--------------------------- MODULE SessionsProofs ---------------------------
(***************************************************************************)
(* Proofs about Sessions, for any tokens, providers, codes and number of   *)
(* handlers in flight.                                                     *)
(***************************************************************************)
EXTENDS Sessions, TLAPS

\* A slot that moves to a legal position leaves all slots legal.
LEMMA GoType ==
    ASSUME TypeOK, NEW p \in Calls, NEW s \in CallStates, Go(p, s)
    PROVE  call' \in [Calls -> CallStates]
BY DEF TypeOK, Go

LEMMA DoneType ==
    ASSUME TypeOK, NEW p \in Calls, Done(p)
    PROVE  call' \in [Calls -> CallStates]
<1>1. Idle \in CallStates
    BY DEF CallStates
<1> QED
    BY <1>1, GoType DEF Done

\* What a slot carries, by its position.
LEMMA Carried ==
    ASSUME TypeOK, NEW p \in Calls
    PROVE  /\ call[p].step \in {"rotateRead", "grace"} => call[p].t \in Tokens
           /\ call[p].step = "revoke" =>
                /\ call[p].scope \subseteq Tokens /\ call[p].seen \subseteq Tokens
                /\ call[p].m \in Methods
           /\ call[p].step = "unlinkRead" => call[p].m \in Providers
           /\ call[p].step = "phoneChecked" =>
                call[p].saw \subseteq Methods /\ call[p].saw # {"phone"}
           /\ call[p].step = "codeRead" => call[p].open \subseteq Codes
           /\ call[p].step \in {"verifyRead", "matched"} => call[p].c \in Codes
<1>1. call[p] \in CallStates
    BY DEF TypeOK
<1> QED
    BY <1>1 DEF CallStates, Idle

\* The families of used tokens are tokens, and live tokens are too.
LEMMA SnapshotType ==
    ASSUME TypeOK, NEW p \in Calls, NEW op \in {"logout", "all"} \cup RowLocking,
           NEW F \in SUBSET Tokens, NEW m \in Methods, Snapshot(p, op, F, m)
    PROVE  call' \in [Calls -> CallStates]
<1>1. LiveIn(F) \subseteq Tokens
    BY DEF LiveIn
<1>2. [step |-> "revoke", op |-> op, scope |-> F, seen |-> LiveIn(F), m |-> m]
        \in CallStates
    BY <1>1 DEF CallStates
<1> QED
    BY <1>2, GoType DEF Snapshot

\* Every token that was made belongs to a session that was begun, and whatever
\* refers to a token or a session refers to one that was made.
MadeInv ==
    /\ \A t \in Used : family[t] \in Used
    /\ graced \subseteq Used /\ ended \subseteq Used
    /\ \A p \in Calls : call[p].step \in {"rotateRead", "grace"} => call[p].t \in Used
    /\ \A p \in Calls : At(p, "revoke") => call[p].scope \subseteq Used

\* Sign-in and refresh keep every variable in its type.
LEMMA TokenType ==
    ASSUME TypeOK, MadeInv, TokenNext
    PROVE  TypeOK'
<1>1. ASSUME NEW p \in Calls, LoginRead(p)
      PROVE  TypeOK'
    <2>1. [step |-> "issue"] \in CallStates
        BY DEF CallStates
    <2>2. call' \in [Calls -> CallStates]
        BY <1>1, <2>1, GoType DEF LoginRead
    <2> QED
        BY <1>1, <2>2 DEF TypeOK, LoginRead, account, sessions, codes
<1>2. ASSUME NEW p \in Calls, RotateLost(p)
      PROVE  TypeOK'
    <2>1. call[p].t \in Tokens
        BY <1>2, Carried DEF RotateLost, At
    <2>2. [step |-> "grace", t |-> call[p].t] \in CallStates
        BY <2>1 DEF CallStates
    <2>3. call' \in [Calls -> CallStates]
        BY <1>2, <2>2, GoType, DoneType DEF RotateLost
    <2> QED
        BY <1>2, <2>3 DEF TypeOK, RotateLost, account, sessions, codes
<1>3. ASSUME NEW p \in Calls, NEW t \in Tokens, RotateRead(p, t)
      PROVE  TypeOK'
    <2>1. /\ [step |-> "rotateRead", t |-> t] \in CallStates
          /\ [step |-> "grace", t |-> t] \in CallStates
        BY DEF CallStates
    <2>2. call' \in [Calls -> CallStates]
        BY <1>3, <2>1, GoType DEF RotateRead
    <2> QED
        BY <1>3, <2>2 DEF TypeOK, RotateRead, account, sessions, codes
<1>4. ASSUME NEW n \in Tokens, NEW f \in Tokens, NEW missed, Insert(n, f, missed)
      PROVE  /\ family' \in [Tokens -> Tokens \cup {None}]
             /\ late' \subseteq Tokens
    BY <1>4 DEF TypeOK, Insert
<1>5. ASSUME NEW p \in Calls, NEW n \in Tokens, RotateWrite(p, n)
      PROVE  TypeOK'
    <2>1. family[call[p].t] \in Tokens
        BY <1>5 DEF RotateWrite, At, MadeInv, Used
    <2>2. call' \in [Calls -> CallStates]
        BY <1>5, DoneType DEF RotateWrite
    <2>3. token' \in [Tokens -> TokenStatuses]
        BY <1>5 DEF RotateWrite, TypeOK, TokenStatuses
    <2> QED
        BY <1>4, <1>5, <2>1, <2>2, <2>3 DEF TypeOK, RotateWrite, account, codes
<1>6. ASSUME NEW p \in Calls, NEW n \in Tokens, IssueSession(p, n)
      PROVE  TypeOK'
    <2>1. call' \in [Calls -> CallStates]
        BY <1>6, DoneType DEF IssueSession
    <2>2. token' \in [Tokens -> TokenStatuses]
        BY <1>6 DEF IssueSession, TypeOK, TokenStatuses
    <2> QED
        BY <1>4, <1>6, <2>1, <2>2 DEF TypeOK, IssueSession, account, codes
<1>7. ASSUME NEW p \in Calls, NEW n \in Tokens, GraceIssue(p, n)
      PROVE  TypeOK'
    <2>1. family[call[p].t] \in Tokens
        BY <1>7 DEF GraceIssue, At, MadeInv, Used
    <2>2. call' \in [Calls -> CallStates]
        BY <1>7, DoneType DEF GraceIssue
    <2>3. token' \in [Tokens -> TokenStatuses]
        BY <1>7 DEF GraceIssue, TypeOK, TokenStatuses
    <2> QED
        BY <1>4, <1>7, <2>1, <2>2, <2>3 DEF TypeOK, GraceIssue, account, codes
<1>8. ASSUME NEW t \in Tokens, GraceEnds(t)
      PROVE  TypeOK'
    BY <1>8 DEF TypeOK, GraceEnds, TokenStatuses, account, codes
<1> QED
    BY <1>1, <1>2, <1>3, <1>5, <1>6, <1>7, <1>8 DEF TokenNext

\* ... revocations ...
LEMMA RevokeType ==
    ASSUME TypeOK, MadeInv, RevokeNext
    PROVE  TypeOK'
<1>0. /\ "password" \in Methods
      /\ Families \subseteq Tokens
    BY DEF Methods, Families, MadeInv, Used
<1>1. ASSUME NEW p \in Calls, NEW t \in Tokens, Logout(p, t)
      PROVE  TypeOK'
    <2>1. {family[t]} \in SUBSET Tokens
        BY <1>1 DEF Logout, MadeInv, Used
    <2>2. call' \in [Calls -> CallStates]
        BY <1>0, <1>1, <2>1, SnapshotType DEF Logout
    <2> QED
        BY <1>1, <2>2 DEF TypeOK, Logout, account, sessions, codes
<1>2. ASSUME NEW p \in Calls, EndAll(p) \/ ChangePassword(p) \/ ResetPassword(p)
      PROVE  TypeOK'
    <2>1. {"change", "reset"} \subseteq RowLocking
        BY DEF RowLocking
    <2>2. call' \in [Calls -> CallStates]
        BY <1>0, <1>2, <2>1, SnapshotType DEF EndAll, ChangePassword, ResetPassword
    <2> QED
        BY <1>2, <2>2 DEF TypeOK, EndAll, ChangePassword, ResetPassword,
                          account, sessions, codes
<1>3. ASSUME NEW p \in Calls, Revoke(p)
      PROVE  token' \in [Tokens -> TokenStatuses] /\ ended' \subseteq Tokens
    <2>1. call[p].scope \subseteq Tokens
        BY <1>3, Carried DEF Revoke, At
    <2> QED
        BY <1>3, <2>1 DEF Revoke, TypeOK, TokenStatuses
<1>4. [step |-> "issue"] \in CallStates
    BY DEF CallStates
<1>5. ASSUME NEW p \in Calls, EndSessions(p)
      PROVE  TypeOK'
    <2>1. call' \in [Calls -> CallStates]
        BY <1>5, DoneType DEF EndSessions
    <2> QED
        BY <1>3, <1>5, <2>1 DEF TypeOK, EndSessions, Revoke, account, codes
<1>6. ASSUME NEW p \in Calls, SetPassword(p) \/ DropProvider(p)
      PROVE  TypeOK'
    <2>1. call' \in [Calls -> CallStates]
        BY <1>4, <1>6, GoType, DoneType DEF SetPassword, DropProvider
    <2>2. methods' \subseteq Methods
        BY <1>0, <1>6 DEF SetPassword, DropProvider, TypeOK
    <2> QED
        BY <1>3, <1>6, <2>1, <2>2 DEF TypeOK, SetPassword, DropProvider, Revoke, codes
<1> QED
    BY <1>1, <1>2, <1>5, <1>6 DEF RevokeNext

\* ... ways to sign in ...
LEMMA MethodType ==
    ASSUME TypeOK, MadeInv, MethodNext
    PROVE  TypeOK'
<1>1. ASSUME NEW m \in Providers, LinkProvider(m)
      PROVE  TypeOK'
    BY <1>1 DEF TypeOK, LinkProvider, Methods, sessions, codes
<1>2. CASE VerifyPhone
    BY <1>2 DEF TypeOK, VerifyPhone, Methods, sessions, codes
<1>3. ASSUME NEW p \in Calls, NEW m \in Providers, UnlinkRead(p, m)
      PROVE  TypeOK'
    <2>1. [step |-> "unlinkRead", m |-> m] \in CallStates
        BY DEF CallStates
    <2>2. call' \in [Calls -> CallStates]
        BY <1>3, <2>1, GoType DEF UnlinkRead
    <2> QED
        BY <1>3, <2>2 DEF TypeOK, UnlinkRead, account, sessions, codes
<1>4. ASSUME NEW p \in Calls, UnlinkLock(p)
      PROVE  TypeOK'
    <2>1. call[p].m \in Methods /\ Families \in SUBSET Tokens
        BY <1>4, Carried DEF UnlinkLock, At, Methods, Families, MadeInv, Used
    <2>2. "unlink" \in RowLocking
        BY DEF RowLocking
    <2>3. call' \in [Calls -> CallStates]
        BY <1>4, <2>1, <2>2, SnapshotType DEF UnlinkLock
    <2> QED
        BY <1>4, <2>3 DEF TypeOK, UnlinkLock, account, sessions, codes
<1>5. ASSUME NEW p \in Calls, PhoneRead(p)
      PROVE  TypeOK'
    <2>1. methods \in (SUBSET Methods) \ {{"phone"}}
        BY <1>5 DEF PhoneRead, TypeOK
    <2>2. [step |-> "phoneChecked", saw |-> methods] \in CallStates
        BY <2>1 DEF CallStates
    <2>3. call' \in [Calls -> CallStates]
        BY <1>5, <2>2, GoType DEF PhoneRead
    <2> QED
        BY <1>5, <2>3 DEF TypeOK, PhoneRead, account, sessions, codes
<1>6. ASSUME NEW p \in Calls, PhoneWrite(p)
      PROVE  TypeOK'
    <2>1. call' \in [Calls -> CallStates]
        BY <1>6, DoneType DEF PhoneWrite
    <2> QED
        BY <1>6, <2>1 DEF TypeOK, PhoneWrite, sessions, codes
<1> QED
    BY <1>1, <1>2, <1>3, <1>4, <1>5, <1>6 DEF MethodNext

\* ... codes and failures.
LEMMA CodeType ==
    ASSUME TypeOK, CodeNext \/ \E p \in Calls : Fail(p)
    PROVE  TypeOK'
<1>1. ASSUME NEW p \in Calls, IssueRead(p)
      PROVE  TypeOK'
    <2>1. [step |-> "codeRead", open |-> OpenCodes] \in CallStates
        BY DEF CallStates, OpenCodes
    <2>2. call' \in [Calls -> CallStates]
        BY <1>1, <2>1, GoType DEF IssueRead
    <2> QED
        BY <1>1, <2>2 DEF TypeOK, IssueRead, account, sessions, codes
<1>2. ASSUME NEW p \in Calls, NEW c \in Codes, IssueCode(p, c)
      PROVE  TypeOK'
    <2>1. call' \in [Calls -> CallStates]
        BY <1>2, DoneType DEF IssueCode
    <2> QED
        BY <1>2, <2>1 DEF TypeOK, IssueCode, CodeStatuses, account, sessions
<1>3. ASSUME NEW p \in Calls, NEW c \in Codes, VerifyRead(p, c)
      PROVE  TypeOK'
    <2>1. [step |-> "verifyRead", c |-> c] \in CallStates
        BY DEF CallStates
    <2>2. call' \in [Calls -> CallStates]
        BY <1>3, <2>1, GoType DEF VerifyRead
    <2> QED
        BY <1>3, <2>2 DEF TypeOK, VerifyRead, account, sessions, codes
<1>4. ASSUME NEW p \in Calls, TryCode(p)
      PROVE  TypeOK'
    <2>1. call[p].c \in Codes
        BY <1>4, Carried DEF TryCode, At
    <2>2. [step |-> "matched", c |-> call[p].c] \in CallStates
        BY <2>1 DEF CallStates
    <2>3. call' \in [Calls -> CallStates]
        BY <1>4, <2>2, GoType, DoneType DEF TryCode
    <2>4. tries' \in [Codes -> 0..MaxTries]
        BY <1>4, <2>1, BoundsAssumption DEF TryCode, TypeOK
    <2> QED
        BY <1>4, <2>3, <2>4 DEF TypeOK, TryCode, account, sessions
<1>5. ASSUME NEW p \in Calls, Consume(p)
      PROVE  TypeOK'
    <2>1. [step |-> "resetting"] \in CallStates
        BY DEF CallStates
    <2>2. call' \in [Calls -> CallStates]
        BY <1>5, <2>1, GoType DEF Consume
    <2>3. call[p].c \in Codes
        BY <1>5, Carried DEF Consume, At
    <2>4. served' \in [Codes -> Nat]
        BY <1>5, <2>3 DEF Consume, TypeOK
    <2> QED
        BY <1>5, <2>2, <2>4 DEF TypeOK, Consume, CodeStatuses, account, sessions
<1>6. ASSUME NEW p \in Calls, Fail(p)
      PROVE  TypeOK'
    <2>1. call' \in [Calls -> CallStates]
        BY <1>6, DoneType DEF Fail
    <2> QED
        BY <1>6, <2>1 DEF TypeOK, Fail, account, sessions, codes
<1> QED
    BY <1>1, <1>2, <1>3, <1>4, <1>5, <1>6 DEF CodeNext

-----------------------------------------------------------------------------
(***************************************************************************)
(* Sessions.  Beside MadeInv, what carries the argument is WindowInv: what *)
(* a revocation under way will not reach was made after its snapshot, and  *)
(* is late.                                                                *)
(***************************************************************************)
WindowInv ==
    \A p \in Calls, t \in Tokens :
        /\ At(p, "revoke") /\ token[t] = "live" /\ family[t] \in call[p].scope
        => t \in call[p].seen \/ t \in late

SessionInv == MadeInv /\ OneLivePerSession /\ EndedStaysEnded /\ WindowInv

\* A step that leaves tokens alone and begins nothing with them.
Quiet ==
    /\ UNCHANGED sessions
    /\ \A p \in Calls : call'[p] = call[p]
                        \/ call'[p].step \notin {"rotateRead", "grace", "revoke"}

LEMMA QuietKeeps ==
    ASSUME SessionInv, Quiet
    PROVE  SessionInv'
BY DEF SessionInv, Quiet, sessions, MadeInv, OneLivePerSession, EndedStaysEnded,
       WindowInv, Used, At

\* What a step of one slot does to the others.
LEMMA OneSlot ==
    ASSUME TypeOK, NEW p \in Calls, NEW s, Go(p, s)
    PROVE  \A q \in Calls : call'[q] = IF q = p THEN s ELSE call[q]
BY DEF TypeOK, Go

\* A slot that takes up a token that was made.
LEMMA AimKeeps ==
    ASSUME TypeOK, SessionInv, NEW p \in Calls, NEW t \in Used,
           NEW step \in {"rotateRead", "grace"},
           Go(p, [step |-> step, t |-> t]), UNCHANGED sessions
    PROVE  SessionInv'
<1>1. \A q \in Calls : call'[q] = IF q = p THEN [step |-> step, t |-> t] ELSE call[q]
    BY OneSlot
<1> QED
    BY <1>1 DEF SessionInv, sessions, MadeInv, OneLivePerSession, EndedStaysEnded,
                WindowInv, Used, At

\* A revocation that begins has seen every live token in its scope.
LEMMA SnapshotKeeps ==
    ASSUME TypeOK, SessionInv, NEW p \in Calls, NEW op, NEW m, NEW F \in SUBSET Used,
           Snapshot(p, op, F, m), UNCHANGED sessions
    PROVE  SessionInv'
<1> DEFINE new == [step |-> "revoke", op |-> op, scope |-> F, seen |-> LiveIn(F), m |-> m]
<1>1. \A q \in Calls : call'[q] = IF q = p THEN new ELSE call[q]
    BY OneSlot DEF Snapshot
<1>2. MadeInv'
    <2>1. Used' = Used
        BY DEF sessions, Used
    <2>2. \A q \in Calls : /\ call'[q].step \in {"rotateRead", "grace"} => call'[q].t \in Used
                           /\ call'[q].step = "revoke" => call'[q].scope \subseteq Used
        BY <1>1 DEF SessionInv, MadeInv, At
    <2> QED
        BY <2>1, <2>2 DEF SessionInv, MadeInv, sessions, At
<1>3. WindowInv'
    <2> SUFFICES ASSUME NEW q \in Calls, NEW t \in Tokens,
                        call'[q].step = "revoke", token[t] = "live",
                        family[t] \in call'[q].scope
                 PROVE  t \in call'[q].seen \/ t \in late
        BY DEF WindowInv, At, sessions
    <2>1. CASE q = p
        <3>1. call'[q].scope = F /\ call'[q].seen = LiveIn(F)
            BY <1>1, <2>1
        <3> QED
            BY <3>1 DEF LiveIn
    <2>2. CASE q # p
        BY <1>1, <2>2 DEF SessionInv, WindowInv, At
    <2> QED
        BY <2>1, <2>2
<1> QED
    BY <1>2, <1>3 DEF SessionInv, sessions, OneLivePerSession, EndedStaysEnded

\* A slot that has done its work and carries no token any more.
Leaves(p) ==
    \A q \in Calls :
        \/ call'[q] = call[q]
        \/ q = p /\ call'[q].step \notin {"rotateRead", "grace", "revoke"}

LEMMA GoLeaves ==
    ASSUME TypeOK, NEW p \in Calls, NEW s, Go(p, s),
           s.step \notin {"rotateRead", "grace", "revoke"}
    PROVE  Leaves(p)
<1>1. \A q \in Calls : call'[q] = IF q = p THEN s ELSE call[q]
    BY OneSlot
<1>2. \A q \in Calls : q = p => call'[q] = s /\ call'[q].step = s.step
    BY <1>1
<1>3. \A q \in Calls : q # p => call'[q] = call[q]
    BY <1>1
<1> QED
    BY <1>2, <1>3 DEF Leaves

LEMMA DoneLeaves ==
    ASSUME TypeOK, NEW p \in Calls, Done(p) \/ Go(p, [step |-> "issue"])
    PROVE  Leaves(p)
<1>1. /\ Idle.step \notin {"rotateRead", "grace", "revoke"}
      /\ [step |-> "issue"].step \notin {"rotateRead", "grace", "revoke"}
    BY DEF Idle
<1>2. CASE Go(p, Idle)
    BY <1>1, <1>2, GoLeaves
<1>3. CASE Go(p, [step |-> "issue"])
    BY <1>1, <1>3, GoLeaves
<1> QED
    BY <1>2, <1>3 DEF Done

\* A new token n of session f keeps what was made and every window: it is late
\* if a revocation is under way for the session or has been.
LEMMA InsertKeeps ==
    ASSUME TypeOK, SessionInv, NEW p \in Calls, NEW n \in Tokens,
           NEW f \in Used \cup {n}, NEW missed, Insert(n, f, missed),
           f \in ended => missed, Leaves(p), ended' = ended,
           token' \in [Tokens -> TokenStatuses], token'[n] = "live",
           \A t \in Tokens \ {n} :
                /\ token'[t] = "none" <=> token[t] = "none"
                /\ token'[t] = "live" => token[t] = "live",
           graced' = graced \/ (f \in Used /\ graced' = graced \cup {f})
    PROVE  MadeInv' /\ EndedStaysEnded' /\ WindowInv'
<1>1. Used' = Used \cup {n} /\ n \notin Used
    BY DEF Used, Insert, TokenStatuses
<1>2. \A t \in Tokens : family'[t] = IF t = n THEN f ELSE family[t]
    BY DEF Insert, TypeOK
<1>3. MadeInv'
    <2>1. \A t \in Used' : family'[t] \in Used'
        BY <1>1, <1>2 DEF SessionInv, MadeInv, Used
    <2>2. graced' \subseteq Used' /\ ended' \subseteq Used'
        BY <1>1 DEF SessionInv, MadeInv
    <2>3. \A q \in Calls : /\ call'[q].step \in {"rotateRead", "grace"} => call'[q].t \in Used'
                           /\ call'[q].step = "revoke" => call'[q].scope \subseteq Used'
        BY <1>1 DEF SessionInv, MadeInv, At, Leaves
    <2> QED
        BY <2>1, <2>2, <2>3 DEF MadeInv, At
<1>4. late \subseteq late'
      /\ (f \in ended \/ (\E q \in Revoking : f \in call[q].scope) => n \in late')
    BY DEF Insert
<1>5. \A t \in Tokens \ {n} : token'[t] = "live" => token[t] = "live" /\ family'[t] = family[t]
    BY <1>2
<1>6. EndedStaysEnded'
    BY <1>2, <1>4, <1>5 DEF EndedStaysEnded, SessionInv
<1>7. WindowInv'
    <2> SUFFICES ASSUME NEW q \in Calls, NEW t \in Tokens,
                        call'[q].step = "revoke", token'[t] = "live",
                        family'[t] \in call'[q].scope
                 PROVE  t \in call'[q].seen \/ t \in late'
        BY DEF WindowInv, At
    <2>1. call'[q] = call[q]
        BY DEF Leaves
    <2>2. CASE t = n
        BY <1>2, <1>4, <2>1, <2>2 DEF Revoking, At
    <2>3. CASE t # n
        BY <1>4, <1>5, <2>1, <2>3 DEF SessionInv, WindowInv, At
    <2> QED
        BY <2>2, <2>3
<1> QED
    BY <1>3, <1>6, <1>7

\* A sign-in begins a session of its own.
LEMMA IssueKeeps ==
    ASSUME TypeOK, SessionInv, NEW p \in Calls, NEW n \in Tokens, IssueSession(p, n)
    PROVE  SessionInv'
<1>1. Leaves(p)
    BY DoneLeaves DEF IssueSession
<1>2. token' \in [Tokens -> TokenStatuses] /\ token'[n] = "live"
      /\ \A t \in Tokens \ {n} : token'[t] = token[t]
    BY DEF IssueSession, TypeOK, TokenStatuses
<1>3. MadeInv' /\ EndedStaysEnded' /\ WindowInv'
    <2>1. n \notin ended
        BY DEF SessionInv, MadeInv, IssueSession, Insert, Used
    <2> QED
        BY <1>1, <1>2, <2>1, InsertKeeps DEF IssueSession
<1>4. \A t \in Tokens : family'[t] = IF t = n THEN n ELSE family[t]
    BY DEF IssueSession, Insert, TypeOK
<1>5. n \notin Used
    BY DEF IssueSession, Insert, Used
<1>6. \A t \in Tokens \ {n} : token[t] = "live" => family[t] # n
    BY <1>5 DEF SessionInv, MadeInv, Used
<1>7. OneLivePerSession'
    BY <1>2, <1>4, <1>6 DEF OneLivePerSession, SessionInv, IssueSession
<1> QED
    BY <1>3, <1>7 DEF SessionInv

\* A refresh takes the live token away as it gives the next one.
LEMMA RotateKeeps ==
    ASSUME TypeOK, SessionInv, NEW p \in Calls, NEW n \in Tokens, RotateWrite(p, n)
    PROVE  SessionInv'
<1> DEFINE old == call[p].t
<1>1. Leaves(p)
    BY DoneLeaves DEF RotateWrite
<1>2. old \in Tokens /\ token[old] = "live" /\ family[old] \in Used /\ old # n
    BY DEF RotateWrite, At, SessionInv, MadeInv, Used, Insert
<1>3. token' \in [Tokens -> TokenStatuses] /\ token'[n] = "live" /\ token'[old] = "rotated"
      /\ \A t \in Tokens \ {n, old} : token'[t] = token[t]
    BY <1>2 DEF RotateWrite, TypeOK, TokenStatuses
<1>4. \A t \in Tokens \ {n} : /\ token'[t] = "none" <=> token[t] = "none"
                              /\ token'[t] = "live" => token[t] = "live"
    BY <1>2, <1>3
<1>5. MadeInv' /\ EndedStaysEnded' /\ WindowInv'
    <2>1. family[old] \in ended => old \in late
        BY <1>2 DEF SessionInv, EndedStaysEnded
    <2> QED
        BY <1>1, <1>2, <1>3, <1>4, <2>1, InsertKeeps DEF RotateWrite
<1>6. \A t \in Tokens : family'[t] = IF t = n THEN family[old] ELSE family[t]
    BY DEF RotateWrite, Insert, TypeOK
<1>7. OneLivePerSession'
    <2> SUFFICES ASSUME NEW t \in Tokens, NEW u \in Tokens, token'[t] = "live",
                        token'[u] = "live", t # u, family'[t] = family'[u]
                 PROVE  family'[t] \in graced
        BY DEF OneLivePerSession, RotateWrite
    <2>1. CASE t # n /\ u # n
        BY <1>3, <1>6, <2>1 DEF SessionInv, OneLivePerSession
    <2>2. CASE t = n
        BY <1>2, <1>3, <1>6, <2>2 DEF SessionInv, OneLivePerSession
    <2>3. CASE u = n
        BY <1>2, <1>3, <1>6, <2>3 DEF SessionInv, OneLivePerSession
    <2> QED
        BY <2>1, <2>2, <2>3
<1> QED
    BY <1>5, <1>7 DEF SessionInv

\* The grace period gives a token more, and the session is known for it.
LEMMA GraceKeeps ==
    ASSUME TypeOK, SessionInv, NEW p \in Calls, NEW n \in Tokens, GraceIssue(p, n)
    PROVE  SessionInv'
<1> DEFINE f == family[call[p].t]
<1>1. Leaves(p)
    BY DoneLeaves DEF GraceIssue
<1>2. f \in Used
    BY DEF GraceIssue, At, SessionInv, MadeInv
<1>3. token' \in [Tokens -> TokenStatuses] /\ token'[n] = "live"
      /\ \A t \in Tokens \ {n} : token'[t] = token[t]
    BY DEF GraceIssue, TypeOK, TokenStatuses
<1>4. MadeInv' /\ EndedStaysEnded' /\ WindowInv'
    BY <1>1, <1>2, <1>3, InsertKeeps DEF GraceIssue
<1>5. \A t \in Tokens : family'[t] = IF t = n THEN f ELSE family[t]
    BY DEF GraceIssue, Insert, TypeOK
<1>6. OneLivePerSession'
    BY <1>3, <1>5 DEF OneLivePerSession, SessionInv, GraceIssue
<1> QED
    BY <1>4, <1>6 DEF SessionInv

\* Time passes for a token that was replaced.
LEMMA GraceEndsKeeps ==
    ASSUME TypeOK, SessionInv, NEW t \in Tokens, GraceEnds(t)
    PROVE  SessionInv'
<1>1. \A u \in Tokens : token'[u] = IF u = t THEN "spent" ELSE token[u]
    BY DEF GraceEnds, TypeOK
<1>2. Used' = Used
    BY <1>1 DEF Used, GraceEnds
<1> QED
    BY <1>1, <1>2 DEF GraceEnds, SessionInv, MadeInv, OneLivePerSession,
                      EndedStaysEnded, WindowInv, At

\* A revocation leaves of its sessions only what was made after its snapshot.
LEMMA RevokeKeeps ==
    ASSUME TypeOK, SessionInv, NEW p \in Calls, Revoke(p), Leaves(p)
    PROVE  SessionInv'
<1>1. \A t \in Tokens : token'[t] =
        IF t \in call[p].seen /\ token[t] = "live" THEN "revoked" ELSE token[t]
    BY DEF Revoke
<1>2. Used' = Used
    BY <1>1 DEF Used
<1>3. \A t \in Tokens : token'[t] = "live" => token[t] = "live" /\ t \notin call[p].seen
    BY <1>1
<1>4. MadeInv'
    BY <1>2 DEF SessionInv, MadeInv, Revoke, Leaves, At
<1>5. EndedStaysEnded'
    BY <1>3 DEF SessionInv, EndedStaysEnded, WindowInv, Revoke, At
<1>6. WindowInv'
    BY <1>3 DEF SessionInv, WindowInv, Revoke, Leaves, At
<1>7. OneLivePerSession'
    BY <1>3 DEF SessionInv, OneLivePerSession, Revoke
<1> QED
    BY <1>4, <1>5, <1>6, <1>7 DEF SessionInv

\* Which step keeps the sessions by which lemma.
LEMMA TokenKeeps ==
    ASSUME TypeOK, SessionInv, TokenNext
    PROVE  SessionInv'
<1>1. ASSUME NEW p \in Calls, LoginRead(p)
      PROVE  SessionInv'
    <2>1. Leaves(p)
        BY <1>1, DoneLeaves DEF LoginRead
    <2> QED
        BY <1>1, <2>1, QuietKeeps DEF LoginRead, Leaves, Quiet
<1>2. ASSUME NEW p \in Calls, RotateLost(p)
      PROVE  SessionInv'
    <2>1. CASE Done(p)
        <3>1. Leaves(p)
            BY <2>1, DoneLeaves
        <3> QED
            BY <1>2, <3>1, QuietKeeps DEF RotateLost, Leaves, Quiet
    <2>2. CASE Go(p, [step |-> "grace", t |-> call[p].t])
        <3>1. call[p].t \in Used
            BY <1>2 DEF RotateLost, At, SessionInv, MadeInv
        <3> QED
            BY <1>2, <2>2, <3>1, AimKeeps DEF RotateLost
    <2> QED
        BY <1>2, <2>1, <2>2 DEF RotateLost
<1>3. ASSUME NEW p \in Calls, NEW t \in Tokens, RotateRead(p, t)
      PROVE  SessionInv'
    <2>1. t \in Used
        BY <1>3 DEF RotateRead, Used
    <2> QED
        BY <1>3, <2>1, AimKeeps DEF RotateRead
<1> QED
    BY <1>1, <1>2, <1>3, IssueKeeps, RotateKeeps, GraceKeeps, GraceEndsKeeps
    DEF TokenNext

LEMMA RevocationsKeep ==
    ASSUME TypeOK, SessionInv, RevokeNext
    PROVE  SessionInv'
<1>1. Families \in SUBSET Used
    BY DEF Families, SessionInv, MadeInv
<1>2. ASSUME NEW p \in Calls, NEW t \in Tokens, Logout(p, t)
      PROVE  SessionInv'
    <2>1. {family[t]} \in SUBSET Used
        BY <1>2 DEF Logout, SessionInv, MadeInv
    <2> QED
        BY <1>2, <2>1, SnapshotKeeps DEF Logout
<1>3. ASSUME NEW p \in Calls, EndAll(p) \/ ChangePassword(p) \/ ResetPassword(p)
      PROVE  SessionInv'
    BY <1>1, <1>3, SnapshotKeeps DEF EndAll, ChangePassword, ResetPassword
<1>4. ASSUME NEW p \in Calls, EndSessions(p) \/ SetPassword(p) \/ DropProvider(p)
      PROVE  SessionInv'
    <2>1. Leaves(p)
        BY <1>4, DoneLeaves DEF EndSessions, SetPassword, DropProvider
    <2> QED
        BY <1>4, <2>1, RevokeKeeps DEF EndSessions, SetPassword, DropProvider
<1> QED
    BY <1>2, <1>3, <1>4 DEF RevokeNext

LEMMA MethodsKeep ==
    ASSUME TypeOK, SessionInv, MethodNext
    PROVE  SessionInv'
<1>1. ASSUME UNCHANGED call, UNCHANGED sessions
      PROVE  SessionInv'
    BY <1>1, QuietKeeps DEF Quiet
<1>2. ASSUME NEW p \in Calls, NEW s, Go(p, s), UNCHANGED sessions,
             s.step \notin {"rotateRead", "grace", "revoke"}
      PROVE  SessionInv'
    <2>1. \A q \in Calls : call'[q] = IF q = p THEN s ELSE call[q]
        BY <1>2, OneSlot
    <2> QED
        BY <1>2, <2>1, QuietKeeps DEF Quiet
<1>3. ASSUME NEW m \in Providers, LinkProvider(m)
      PROVE  SessionInv'
    BY <1>1, <1>3 DEF LinkProvider
<1>4. CASE VerifyPhone
    BY <1>1, <1>4 DEF VerifyPhone
<1>5. ASSUME NEW p \in Calls, NEW m \in Providers, UnlinkRead(p, m)
      PROVE  SessionInv'
    BY <1>2, <1>5 DEF UnlinkRead
<1>6. ASSUME NEW p \in Calls, UnlinkLock(p)
      PROVE  SessionInv'
    <2>1. Families \in SUBSET Used
        BY DEF Families, SessionInv, MadeInv
    <2> QED
        BY <1>6, <2>1, SnapshotKeeps DEF UnlinkLock
<1>7. ASSUME NEW p \in Calls, PhoneRead(p)
      PROVE  SessionInv'
    BY <1>2, <1>7 DEF PhoneRead
<1>8. ASSUME NEW p \in Calls, PhoneWrite(p)
      PROVE  SessionInv'
    BY <1>2, <1>8 DEF PhoneWrite, Done, Idle
<1> QED
    BY <1>3, <1>4, <1>5, <1>6, <1>7, <1>8 DEF MethodNext

LEMMA CodesKeep ==
    ASSUME TypeOK, SessionInv, CodeNext \/ \E p \in Calls : Fail(p)
    PROVE  SessionInv'
<1>1. ASSUME NEW p \in Calls, NEW s, Go(p, s), UNCHANGED sessions,
             s.step \notin {"rotateRead", "grace", "revoke"}
      PROVE  SessionInv'
    <2>1. \A q \in Calls : call'[q] = IF q = p THEN s ELSE call[q]
        BY <1>1, OneSlot
    <2> QED
        BY <1>1, <2>1, QuietKeeps DEF Quiet
<1>2. Idle.step \notin {"rotateRead", "grace", "revoke"}
    BY DEF Idle
<1>3. ASSUME NEW p \in Calls, IssueRead(p) \/ (\E c \in Codes : VerifyRead(p, c))
      PROVE  SessionInv'
    BY <1>1, <1>3 DEF IssueRead, VerifyRead
<1>4. ASSUME NEW p \in Calls, (\E c \in Codes : IssueCode(p, c)) \/ Fail(p)
      PROVE  SessionInv'
    BY <1>1, <1>2, <1>4 DEF IssueCode, Fail, Done
<1>5. ASSUME NEW p \in Calls, TryCode(p)
      PROVE  SessionInv'
    <2>1. \/ Go(p, Idle)
          \/ Go(p, [step |-> "matched", c |-> call[p].c])
        BY <1>5 DEF TryCode, Done
    <2> QED
        BY <1>1, <1>2, <1>5, <2>1 DEF TryCode
<1>6. ASSUME NEW p \in Calls, Consume(p)
      PROVE  SessionInv'
    BY <1>1, <1>6 DEF Consume
<1> QED
    BY <1>3, <1>4, <1>5, <1>6 DEF CodeNext

\* The inductive invariant of sessions holds.
THEOREM SessionInvariant == Spec => [](TypeOK /\ SessionInv)
<1>1. Init => TypeOK /\ SessionInv
    <2> SUFFICES ASSUME Init
                 PROVE  TypeOK /\ SessionInv
        OBVIOUS
    <2>1. TypeOK
        <3>1. \A c \in Codes : 0 \in 0..MaxTries
            BY BoundsAssumption
        <3> QED
            BY <3>1 DEF Init, TypeOK, TokenStatuses, CodeStatuses, CallStates
    <2>2. SessionInv
        BY DEF Init, SessionInv, MadeInv, OneLivePerSession, EndedStaysEnded,
               WindowInv, Used, At, Idle
    <2> QED
        BY <2>1, <2>2
<1>2. TypeOK /\ SessionInv /\ [Next]_vars => TypeOK' /\ SessionInv'
    <2> SUFFICES ASSUME TypeOK, SessionInv, [Next]_vars
                 PROVE  TypeOK' /\ SessionInv'
        OBVIOUS
    <2>1. MadeInv
        BY DEF SessionInv
    <2>2. CASE TokenNext
        BY <2>1, <2>2, TokenType, TokenKeeps
    <2>3. CASE RevokeNext
        BY <2>1, <2>3, RevokeType, RevocationsKeep
    <2>4. CASE MethodNext
        BY <2>1, <2>4, MethodType, MethodsKeep
    <2>5. CASE CodeNext \/ \E p \in Calls : Fail(p)
        BY <2>5, CodeType, CodesKeep
    <2>6. CASE UNCHANGED vars
        <3>1. TypeOK'
            BY <2>6 DEF vars, TypeOK
        <3>2. SessionInv'
            BY <2>6, QuietKeeps DEF vars, Quiet, sessions
        <3> QED
            BY <3>1, <3>2
    <2> QED
        BY <2>2, <2>3, <2>4, <2>5, <2>6 DEF Next
<1> QED
    BY <1>1, <1>2, PTL DEF Spec

\* Every variable keeps its type.
THEOREM TypeCorrect == Spec => []TypeOK
BY SessionInvariant, PTL

\* Refreshes of one token that meet leave one live token, but for the grace period.
THEOREM OneTokenLives == Spec => []OneLivePerSession
<1>1. SessionInv => OneLivePerSession
    BY DEF SessionInv
<1> QED
    BY <1>1, SessionInvariant, PTL

\* What was ended stays ended, but for tokens made meanwhile or in grace, and
\* what is made from these.
THEOREM EndIsFinal == Spec => []EndedStaysEnded
<1>1. SessionInv => EndedStaysEnded
    BY DEF SessionInv
<1> QED
    BY <1>1, SessionInvariant, PTL

-----------------------------------------------------------------------------
(***************************************************************************)
(* Ways to sign in.  While a removal of a provider holds the row, nobody   *)
(* else changes the methods, and what it leaves is not empty.              *)
(***************************************************************************)
LockInv ==
    /\ \A p, q \in Revoking :
        call[p].op \in RowLocking /\ call[q].op \in RowLocking => p = q
    /\ \A p \in Revoking : call[p].op = "unlink" => methods \ {call[p].m} # {}

\* A step that begins no revocation and takes no method away from a removal.
LEMMA NoLockKeeps ==
    ASSUME LockInv,
           \A p \in Calls : call'[p] = call[p] \/ call'[p].step # "revoke",
           RowLocked => methods \subseteq methods'
    PROVE  LockInv'
<1>1. \A p \in Calls : p \in Revoking' => p \in Revoking /\ call'[p] = call[p]
    BY DEF Revoking, At
<1>2. Revoking' \subseteq Calls
    BY DEF Revoking
<1>3. \A p \in Revoking : call[p].op = "unlink" => RowLocked
    BY DEF RowLocked, RowLocking
<1> QED
    BY <1>1, <1>2, <1>3 DEF LockInv

\* A slot that goes anywhere but into a revocation.
LEMMA StepAside ==
    ASSUME TypeOK, NEW p \in Calls, NEW s, Go(p, s), s.step # "revoke"
    PROVE  \A q \in Calls : call'[q] = call[q] \/ call'[q].step # "revoke"
<1>1. \A q \in Calls : call'[q] = IF q = p THEN s ELSE call[q]
    BY OneSlot
<1>2. \A q \in Calls : q = p => call'[q] = s /\ call'[q].step = s.step
    BY <1>1
<1>3. \A q \in Calls : q # p => call'[q] = call[q]
    BY <1>1
<1> QED
    BY <1>2, <1>3

\* A revocation that begins: it locks a free row or does not lock it at all.
LEMMA SnapshotLocks ==
    ASSUME TypeOK, LockInv, NEW p \in Calls, NEW op, NEW F, NEW m,
           Snapshot(p, op, F, m), Free(p) \/ call[p].step # "revoke", methods' = methods,
           op \in RowLocking => ~RowLocked,
           op = "unlink" => methods \ {m} # {}
    PROVE  LockInv'
<1> DEFINE new == [step |-> "revoke", op |-> op, scope |-> F, seen |-> LiveIn(F), m |-> m]
<1>1. \A q \in Calls : call'[q] = IF q = p THEN new ELSE call[q]
    BY OneSlot DEF Snapshot
<1>2. call'[p] = new /\ new.op = op /\ new.m = m
    BY <1>1
<1>3. \A q \in Revoking' : q # p => q \in Revoking /\ call'[q] = call[q]
    BY <1>1 DEF Revoking, At
<1>4. \A q \in Revoking' : q # p /\ op \in RowLocking => call'[q].op \notin RowLocking
    BY <1>3 DEF RowLocked
<1>5. ASSUME NEW q \in Revoking', NEW r \in Revoking',
             call'[q].op \in RowLocking, call'[r].op \in RowLocking
      PROVE  q = r
    <2>1. CASE q # p /\ r # p
        BY <1>3, <1>5, <2>1 DEF LockInv
    <2>2. CASE q = p \/ r = p
        BY <1>2, <1>4, <1>5, <2>2
    <2> QED
        BY <2>1, <2>2
<1>6. ASSUME NEW q \in Revoking', call'[q].op = "unlink"
      PROVE  methods \ {call'[q].m} # {}
    BY <1>2, <1>3, <1>6 DEF LockInv
<1> QED
    BY <1>5, <1>6 DEF LockInv

\* Who holds the row's lock is the only one, so its end frees the row.
LEMMA RevocationFrees ==
    ASSUME TypeOK, LockInv, NEW p \in Revoking, NEW s, Go(p, s), s.step # "revoke",
           \/ methods' = methods
           \/ call[p].op \in RowLocking
    PROVE  LockInv'
<1>1. p \in Calls
    BY DEF Revoking
<1>2. \A q \in Calls : call'[q] = IF q = p THEN s ELSE call[q]
    BY <1>1, OneSlot
<1>3. \A q \in Revoking' : q # p /\ q \in Revoking /\ call'[q] = call[q]
    BY <1>2 DEF Revoking, At
<1>4. \A q \in Revoking' : call[p].op \in RowLocking => call[q].op \notin RowLocking
    BY <1>3 DEF LockInv
<1>5. \A q \in Revoking' : call'[q].op = "unlink" => methods' \ {call'[q].m} # {}
    BY <1>3, <1>4 DEF LockInv, RowLocking
<1> QED
    BY <1>3, <1>5 DEF LockInv

\* The steps of sign-in, refresh, codes and failures leave methods alone.
LEMMA OthersKeepLock ==
    ASSUME TypeOK, LockInv, TokenNext \/ CodeNext \/ \E p \in Calls : Fail(p)
    PROVE  LockInv'
<1>1. ASSUME NEW p \in Calls, NEW s, Go(p, s), s.step # "revoke", methods' = methods
      PROVE  LockInv'
    BY <1>1, StepAside, NoLockKeeps
<1>2. ASSUME NEW p \in Calls, Done(p), methods' = methods
      PROVE  LockInv'
    BY <1>1, <1>2 DEF Done, Idle
<1>3. ASSUME NEW p \in Calls, LoginRead(p) \/ RotateLost(p) \/ IssueRead(p)
                              \/ TryCode(p) \/ Consume(p) \/ Fail(p)
      PROVE  LockInv'
    BY <1>1, <1>2, <1>3 DEF LoginRead, RotateLost, IssueRead, TryCode, Consume, Fail, account
<1>4. ASSUME NEW p \in Calls, NEW t \in Tokens,
             RotateRead(p, t) \/ RotateWrite(p, t) \/ IssueSession(p, t) \/ GraceIssue(p, t)
      PROVE  LockInv'
    BY <1>1, <1>2, <1>4 DEF RotateRead, RotateWrite, IssueSession, GraceIssue, account
<1>5. ASSUME NEW t \in Tokens, GraceEnds(t)
      PROVE  LockInv'
    BY <1>5, NoLockKeeps DEF GraceEnds, account
<1>6. ASSUME NEW p \in Calls, NEW c \in Codes, IssueCode(p, c) \/ VerifyRead(p, c)
      PROVE  LockInv'
    BY <1>1, <1>2, <1>6 DEF IssueCode, VerifyRead, account
<1> QED
    BY <1>3, <1>4, <1>5, <1>6 DEF TokenNext, CodeNext

\* Revocations take the lock when it is free, and write methods holding it.
LEMMA RevocationsKeepLock ==
    ASSUME TypeOK, LockInv, RevokeNext
    PROVE  LockInv'
<1>1. ASSUME NEW p \in Calls, NEW t \in Tokens, Logout(p, t)
      PROVE  LockInv'
    <2>1. "logout" \notin RowLocking
        BY DEF RowLocking
    <2> QED
        BY <1>1, <2>1, SnapshotLocks DEF Logout, account
<1>2. ASSUME NEW p \in Calls, EndAll(p)
      PROVE  LockInv'
    <2>1. "all" \notin RowLocking
        BY DEF RowLocking
    <2> QED
        BY <1>2, <2>1, SnapshotLocks DEF EndAll, account
<1>3. ASSUME NEW p \in Calls, ChangePassword(p)
      PROVE  LockInv'
    BY <1>3, SnapshotLocks DEF ChangePassword, account
<1>4. ASSUME NEW p \in Calls, ResetPassword(p)
      PROVE  LockInv'
    BY <1>4, SnapshotLocks DEF ResetPassword, account, At
<1>5. Idle.step # "revoke" /\ [step |-> "issue"].step # "revoke"
    BY DEF Idle
<1>6. ASSUME NEW p \in Calls, EndSessions(p)
      PROVE  LockInv'
    <2>1. p \in Revoking
        BY <1>6 DEF EndSessions, Revoke, Revoking
    <2> QED
        BY <1>5, <1>6, <2>1, RevocationFrees DEF EndSessions, Done, account
<1>7. ASSUME NEW p \in Calls, SetPassword(p) \/ DropProvider(p)
      PROVE  LockInv'
    <2>1. p \in Revoking /\ call[p].op \in RowLocking
        BY <1>7 DEF SetPassword, DropProvider, Revoke, Revoking, RowLocking
    <2>2. Go(p, Idle) \/ Go(p, [step |-> "issue"])
        BY <1>7 DEF SetPassword, DropProvider, Done
    <2> QED
        BY <1>5, <2>1, <2>2, RevocationFrees
<1> QED
    BY <1>1, <1>2, <1>3, <1>4, <1>6, <1>7 DEF RevokeNext

\* Changes of the ways to sign in wait for the lock, or take it.
LEMMA MethodsKeepLock ==
    ASSUME TypeOK, LockInv, MethodNext
    PROVE  LockInv'
<1>1. ASSUME NEW p \in Calls, NEW s, Go(p, s), s.step # "revoke",
             RowLocked => methods \subseteq methods'
      PROVE  LockInv'
    BY <1>1, StepAside, NoLockKeeps
<1>2. ASSUME NEW m \in Providers, LinkProvider(m)
      PROVE  LockInv'
    BY <1>2, NoLockKeeps DEF LinkProvider
<1>3. CASE VerifyPhone
    BY <1>3, NoLockKeeps DEF VerifyPhone
<1>4. ASSUME NEW p \in Calls, NEW m \in Providers, UnlinkRead(p, m)
      PROVE  LockInv'
    BY <1>1, <1>4 DEF UnlinkRead, account
<1>5. ASSUME NEW p \in Calls, UnlinkLock(p)
      PROVE  LockInv'
    <2>1. methods \ {call[p].m} # {}
        BY <1>5 DEF UnlinkLock
    <2> QED
        BY <1>5, <2>1, SnapshotLocks DEF UnlinkLock, account, At
<1>6. ASSUME NEW p \in Calls, PhoneRead(p)
      PROVE  LockInv'
    BY <1>1, <1>6 DEF PhoneRead, account
<1>7. ASSUME NEW p \in Calls, PhoneWrite(p)
      PROVE  LockInv'
    BY <1>1, <1>7 DEF PhoneWrite, Done, Idle
<1> QED
    BY <1>2, <1>3, <1>4, <1>5, <1>6, <1>7 DEF MethodNext

\* One holder of the row's lock at a time, and no removal that leaves nothing.
THEOREM RowLockHolds == Spec => []LockInv
<1>1. Init => LockInv
    BY DEF Init, LockInv, Revoking, At, Idle
<1>2. TypeOK /\ LockInv /\ [Next]_vars => LockInv'
    <2> SUFFICES ASSUME TypeOK, LockInv, [Next]_vars
                 PROVE  LockInv'
        OBVIOUS
    <2>1. CASE UNCHANGED vars
        BY <2>1, NoLockKeeps DEF vars
    <2> QED
        BY <2>1, OthersKeepLock, RevocationsKeepLock, MethodsKeepLock DEF Next
<1> QED
    BY <1>1, <1>2, TypeCorrect, PTL DEF Spec

\* A step takes the last way to sign in only as LoginMethodRemains allows.
LEMMA StepLeavesMethod ==
    ASSUME TypeOK, LockInv, Next, methods # {}, methods' = {}
    PROVE  \E p \in Calls :
               At(p, "phoneChecked") /\ call[p].saw # methods /\ PhoneWrite(p)
<1>1. ASSUME NEW p \in Calls, PhoneWrite(p)
      PROVE  At(p, "phoneChecked") /\ call[p].saw # methods
    <2>1. call[p].saw # {"phone"}
        BY <1>1, Carried DEF PhoneWrite, At
    <2>2. methods = {"phone"}
        BY <1>1 DEF PhoneWrite
    <2> QED
        BY <1>1, <2>1, <2>2 DEF PhoneWrite
<1>2. CASE TokenNext
    BY <1>2 DEF TokenNext, LoginRead, RotateLost, RotateRead, RotateWrite, IssueSession,
                GraceIssue, GraceEnds, account
<1>3. CASE CodeNext \/ \E p \in Calls : Fail(p)
    BY <1>3 DEF CodeNext, IssueRead, IssueCode, VerifyRead, TryCode, Consume, Fail, account
<1>4. ASSUME NEW p \in Calls, DropProvider(p)
      PROVE  FALSE
    BY <1>4 DEF DropProvider, Revoke, LockInv, Revoking
<1>5. CASE RevokeNext
    BY <1>4, <1>5 DEF RevokeNext, Logout, EndAll, ChangePassword, ResetPassword,
                      EndSessions, SetPassword, account
<1>6. CASE MethodNext
    BY <1>1, <1>6 DEF MethodNext, LinkProvider, VerifyPhone, UnlinkRead, UnlinkLock,
                      PhoneRead, account
<1> QED
    BY <1>2, <1>3, <1>5, <1>6 DEF Next

\* An account keeps a way to sign in, but for a change of number that was checked
\* against other methods than it meets.
THEOREM MethodRemains == Spec => LoginMethodRemains
<1> DEFINE Remains == methods # {} /\ methods' = {} =>
        \E p \in Calls :
            At(p, "phoneChecked") /\ call[p].saw # methods /\ PhoneWrite(p)
<1>1. TypeOK /\ LockInv /\ [Next]_vars => [Remains]_vars
    BY StepLeavesMethod
<1> QED
    BY <1>1, TypeCorrect, RowLockHolds, PTL DEF Spec, LoginMethodRemains

-----------------------------------------------------------------------------
(***************************************************************************)
(* Codes: only an open code is consumed, and one that is consumed, void or *)
(* not made yet is not open again.                                         *)
(***************************************************************************)
CodeInv ==
    \A c \in Codes : served[c] <= 1 /\ (code[c] # "used" => served[c] = 0)

LEMMA CodeKeeps ==
    ASSUME TypeOK, CodeInv, Next
    PROVE  CodeInv'
<1>1. ASSUME UNCHANGED codes
      PROVE  CodeInv'
    BY <1>1 DEF codes, CodeInv
<1>2. ASSUME NEW p \in Calls, NEW c \in Codes, IssueCode(p, c)
      PROVE  CodeInv'
    BY <1>2 DEF IssueCode, CodeInv
<1>3. ASSUME NEW p \in Calls, TryCode(p)
      PROVE  CodeInv'
    BY <1>3 DEF TryCode, CodeInv
<1>4. ASSUME NEW p \in Calls, Consume(p)
      PROVE  CodeInv'
    <2>1. call[p].c \in Codes
        BY <1>4, Carried DEF Consume, At
    <2> QED
        BY <1>4, <2>1 DEF Consume, CodeInv, TypeOK
<1>5. CASE TokenNext
    BY <1>1, <1>5 DEF TokenNext, LoginRead, RotateLost, RotateRead, RotateWrite,
                      IssueSession, GraceIssue, GraceEnds
<1>6. CASE RevokeNext
    BY <1>1, <1>6 DEF RevokeNext, Logout, EndAll, ChangePassword, ResetPassword,
                      EndSessions, SetPassword, DropProvider, Revoke
<1>7. CASE MethodNext
    BY <1>1, <1>7 DEF MethodNext, LinkProvider, VerifyPhone, UnlinkRead, UnlinkLock,
                      PhoneRead, PhoneWrite
<1>8. CASE CodeNext \/ \E p \in Calls : Fail(p)
    BY <1>1, <1>2, <1>3, <1>4, <1>8 DEF CodeNext, IssueRead, VerifyRead, Fail
<1> QED
    BY <1>5, <1>6, <1>7, <1>8 DEF Next

\* A code is accepted once.
THEOREM CodeAcceptedOnce == Spec => []CodeServesOnce
<1>1. Init => CodeInv
    BY DEF Init, CodeInv
<1>2. TypeOK /\ CodeInv /\ [Next]_vars => CodeInv'
    <2>1. CodeInv /\ UNCHANGED vars => CodeInv'
        BY DEF CodeInv, vars
    <2> QED
        BY <2>1, CodeKeeps
<1>3. CodeInv => CodeServesOnce
    BY DEF CodeInv, CodeServesOnce
<1> QED
    BY <1>1, <1>2, <1>3, TypeCorrect, PTL DEF Spec
=============================================================================
