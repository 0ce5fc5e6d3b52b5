--------------------------- MODULE AccountsProofs ---------------------------
(***************************************************************************)
(* Proofs about Accounts, for any users, handlers and validations.         *)
(***************************************************************************)
EXTENDS Accounts, TLAPS, FiniteSetTheorems

\* A slot that moves to a legal position leaves all slots legal.
LEMMA GoType ==
    ASSUME TypeOK, NEW p \in Calls, NEW s \in CallStates, Go(p, s)
    PROVE  call' \in [Calls -> CallStates]
BY DEF TypeOK, Go

LEMMA DoneType ==
    ASSUME TypeOK, NEW p \in Calls, Done(p)
    PROVE  call' \in [Calls -> CallStates]
<1>1. Idle \in CallStates
    BY DEF CallStates
<1> QED
    BY <1>1, GoType DEF Done

\* The positions with nothing but a user.
LEMMA PlainStates ==
    ASSUME NEW u \in Users, NEW s \in {"once", "liftRead", "requestRead", "cancelRead",
                                       "jobRead", "jobAbort", "jobChecked", "payRead"}
    PROVE  [step |-> s, u |-> u] \in CallStates
BY DEF CallStates

\* What a slot with a lock, or one with a removal to make, holds.
LEMMA LockedState ==
    ASSUME TypeOK, NEW p \in Calls, call[p].step \in {"locked", "counted"}
    PROVE  /\ call[p] \in [step : {"locked", "counted"}, u : Users, op : Ops]
           /\ [call[p] EXCEPT !.step = "counted"] \in CallStates
<1>1. call[p] \in CallStates
    BY DEF TypeOK
<1>2. call[p] \in [step : {"locked", "counted"}, u : Users, op : Ops]
    BY <1>1 DEF CallStates, Idle
<1> QED
    BY <1>2 DEF CallStates

LEMMA WaitingState ==
    ASSUME TypeOK, NEW p \in Calls, call[p].step \in {"committed", "timer"}
    PROVE  /\ call[p] \in [step : {"committed", "timer"}, u : Users, wait : SUBSET Fills]
           /\ [call[p] EXCEPT !.step = "timer"] \in CallStates
           /\ \A f \in Fills : [call[p] EXCEPT !.wait = @ \ {f}] \in CallStates
<1>1. call[p] \in CallStates
    BY DEF TypeOK
<1>2. call[p] \in [step : {"committed", "timer"}, u : Users, wait : SUBSET Fills]
    BY <1>1 DEF CallStates, Idle
<1>3. \A f \in Fills : call[p].wait \ {f} \in SUBSET Fills
    BY <1>2
<1> QED
    BY <1>2, <1>3 DEF CallStates

-----------------------------------------------------------------------------
(***************************************************************************)
(* Type correctness.                                                       *)
(***************************************************************************)
LEMMA CommitType ==
    ASSUME TypeOK, NEW p \in Calls, NEW u \in Users, Commit(p, u)
    PROVE  /\ call' \in [Calls -> CallStates]
           /\ UNCHANGED <<deletion, paying, gate, fill, lost, faults>>
<1>1. [step |-> "committed", u |-> u, wait |-> Validating(u)] \in CallStates
    BY DEF CallStates, Validating
<1> QED
    BY <1>1, GoType DEF Commit

LEMMA AdminType ==
    ASSUME TypeOK, NEW p \in Calls, NEW u \in Users, AdminStep(p, u)
    PROVE  TypeOK'
<1>1. CASE Suspend(p, u)
    BY <1>1, CommitType DEF TypeOK, Suspend, Times
<1>2. CASE Unsuspend(p, u)
    BY <1>2, CommitType DEF TypeOK, Unsuspend, Times
<1>3. CASE Ban(p, u)
    BY <1>3, CommitType DEF TypeOK, Ban, Times
<1>4. CASE Unban(p, u)
    BY <1>4, CommitType DEF TypeOK, Unban, Times
<1>5. CASE ChangeRole(p, u)
    BY <1>5, CommitType DEF TypeOK, ChangeRole
<1>6. CASE Invalidate(p, u)
    <2>1. call' \in [Calls -> CallStates]
        BY <1>6, WaitingState, GoType DEF Invalidate, At
    <2> QED
        BY <1>6, <2>1 DEF TypeOK, Invalidate, row
<1>7. CASE InvalidateAgain(p, u) \/ InvalidateOnce(p, u)
    <2>1. call' \in [Calls -> CallStates]
        BY <1>7, DoneType DEF InvalidateAgain, InvalidateOnce
    <2> QED
        BY <1>7, <2>1 DEF TypeOK, InvalidateAgain, InvalidateOnce, row
<1> QED
    BY <1>1, <1>2, <1>3, <1>4, <1>5, <1>6, <1>7 DEF AdminStep

LEMMA UserType ==
    ASSUME TypeOK, NEW p \in Calls, NEW u \in Users, UserStep(p, u)
    PROVE  TypeOK'
<1>1. call' \in [Calls -> CallStates]
    BY PlainStates, GoType, DoneType DEF UserStep, LiftWrite, RequestWrite,
        CancelWrite, JobAbort, JobCheck, JobErase, PayWrite
<1>2. CASE LiftWrite(p, u)
    BY <1>1, <1>2 DEF TypeOK, LiftWrite, Times
<1>3. CASE RequestWrite(p, u)
    BY <1>1, <1>3 DEF TypeOK, RequestWrite, Times
<1>4. CASE CancelWrite(p, u) \/ JobAbort(p, u)
    BY <1>1, <1>4 DEF TypeOK, CancelWrite, JobAbort, Times
<1>5. CASE JobCheck(p, u)
    BY <1>1, <1>5 DEF TypeOK, JobCheck, row
<1>6. CASE JobErase(p, u)
    BY <1>1, <1>6 DEF TypeOK, JobErase, Times
<1>7. CASE PayWrite(p, u)
    BY <1>1, <1>7 DEF TypeOK, PayWrite
<1> QED
    BY <1>2, <1>3, <1>4, <1>5, <1>6, <1>7 DEF UserStep

LEMMA CallType ==
    ASSUME TypeOK, CallNext
    PROVE  TypeOK'
<1>1. ASSUME NEW p \in Calls, NEW u \in Users, AdminStep(p, u) \/ UserStep(p, u)
      PROVE  TypeOK'
    BY <1>1, AdminType, UserType
<1>2. ASSUME NEW p \in Calls, AdminCount(p)
      PROVE  TypeOK'
    <2>1. call' \in [Calls -> CallStates]
        BY <1>2, LockedState, GoType, DoneType DEF AdminCount
    <2> QED
        BY <1>2, <2>1 DEF TypeOK, AdminCount, row
<1>3. ASSUME NEW p \in Calls, Fail(p)
      PROVE  TypeOK'
    <2>1. call' \in [Calls -> CallStates]
        BY <1>3, DoneType DEF Fail
    <2>2. call[p].step \in {"committed", "timer", "once"} => call[p].u \in Users
        BY DEF TypeOK, CallStates, Idle
    <2> QED
        BY <1>3, <2>1, <2>2, MaxFaultsAssumption DEF TypeOK, Fail, row
<1>4. ASSUME NEW p \in Calls, NEW a \in Users, NEW u \in Users, NEW op \in Ops,
             AdminLock(p, a, u, op)
      PROVE  TypeOK'
    <2>1. [step |-> "locked", u |-> u, op |-> op] \in CallStates
        BY DEF CallStates
    <2>2. call' \in [Calls -> CallStates]
        BY <1>4, <2>1, GoType DEF AdminLock
    <2> QED
        BY <1>4, <2>2 DEF TypeOK, AdminLock, row
<1>5. ASSUME NEW p \in Calls, NEW u \in Users,
             \/ LiftRead(p, u) \/ RequestRead(p, u) \/ CancelRead(p, u) \/ JobRead(p, u)
             \/ PayRead(p, u)
      PROVE  TypeOK'
    <2>1. call' \in [Calls -> CallStates]
        BY <1>5, PlainStates, GoType DEF LiftRead, RequestRead, CancelRead, JobRead, PayRead
    <2> QED
        BY <1>5, <2>1 DEF TypeOK, LiftRead, RequestRead, CancelRead, JobRead, PayRead, row
<1> QED
    BY <1>1, <1>2, <1>3, <1>4, <1>5 DEF CallNext, Continue

LEMMA OtherType ==
    ASSUME TypeOK, OtherNext
    PROVE  TypeOK'
<1>1. ASSUME NEW u \in Users, SuspensionPasses(u)
      PROVE  TypeOK'
    BY <1>1 DEF TypeOK, SuspensionPasses, Times
<1>2. ASSUME NEW u \in Users, DeletionFallsDue(u)
      PROVE  TypeOK'
    BY <1>2 DEF TypeOK, DeletionFallsDue, Times
<1>3. ASSUME NEW u \in Users, PaymentEnds(u)
      PROVE  TypeOK'
    BY <1>3 DEF TypeOK, PaymentEnds
<1>4. ASSUME NEW u \in Users, GateExpire(u)
      PROVE  TypeOK'
    BY <1>4 DEF TypeOK, GateExpire, row
<1>5. ASSUME NEW f \in Fills, NEW u \in Users, GateRead(f, u)
      PROVE  TypeOK'
    BY <1>5 DEF TypeOK, GateRead, Copy, Copies, row
<1>6. ASSUME NEW f \in Fills, GateFill(f)
      PROVE  TypeOK'
    <2>1. call' \in [Calls -> CallStates]
        BY <1>6, WaitingState DEF TypeOK, GateFill, Ended
    <2>2. fill[f].u \in Users /\ fill[f].copy \in Copies
        BY <1>6 DEF TypeOK, GateFill
    <2>3. gate' \in [Users -> Copies \cup {None}]
        BY <1>6, <2>2 DEF TypeOK, GateFill
    <2> QED
        BY <1>6, <2>1, <2>3 DEF TypeOK, GateFill, row
<1> QED
    BY <1>1, <1>2, <1>3, <1>4, <1>5, <1>6 DEF OtherNext

\* Types of rows, copies and handlers; an account has an end of its suspension
\* exactly while it is suspended.
THEOREM TypeCorrect == Spec => []TypeOK
<1>1. Init => TypeOK
    BY MaxFaultsAssumption DEF Init, TypeOK, CallStates, Times
<1>2. TypeOK /\ [Next]_vars => TypeOK'
    <2> SUFFICES ASSUME TypeOK, [Next]_vars
                 PROVE  TypeOK'
        OBVIOUS
    <2>1. CASE UNCHANGED vars
        BY <2>1 DEF vars, TypeOK
    <2> QED
        BY <2>1, CallType, OtherType DEF Next
<1> QED
    BY <1>1, <1>2, PTL DEF Spec

-----------------------------------------------------------------------------
(***************************************************************************)
(* What steps leave alone.                                                 *)
(***************************************************************************)
HoldsLock(p) == call[p].step \in {"locked", "counted"}
Counted(p)   == call[p].step = "counted"

\* At most one handler holds the lock of a row, what it found under the lock
\* stays so, and at most one counts administrators.
LockInv ==
    /\ \A p, q \in Calls :
        HoldsLock(p) /\ HoldsLock(q) /\ call[p].u = call[q].u => p = q
    /\ \A p \in Calls : HoldsLock(p) =>
        /\ status[call[p].u] # "DELETED"
        /\ call[p].op = "unsuspend" => status[call[p].u] = "SUSPENDED"
        /\ call[p].op = "unban" => status[call[p].u] = "BANNED"
    /\ \A p \in Calls : Counted(p) => call[p].op \in {"suspend", "ban", "demote"}
    /\ \A p, q \in Calls : Counted(p) /\ Counted(q) => p = q

\* The administrator that was counted is still there.
Other(u) == \E v \in Users \ {u} : role[v] = "ADMIN" /\ status[v] \in {"ACTIVE", "DELETED"}
AdminInv == LastAdminRemains /\ \A p \in Calls : Counted(p) => Other(call[p].u)

\* No administrator's write: the rows of accounts that are locked, and their
\* roles, are as before, and no handler gets a lock.
Mild ==
    /\ role' = role
    /\ \A u \in Users : Locked(u) => status'[u] = status[u]
    /\ \A u \in Users : status[u] = "ACTIVE" => status'[u] \in {"ACTIVE", "DELETED"}
    /\ \A u \in Users : status[u] = "DELETED" => status'[u] = "DELETED"
    /\ \A u \in Users :
        status[u] \in {"SUSPENDED", "BANNED"} /\ status'[u] = "ACTIVE" => until[u] = "past"
    /\ \A p \in Calls : HoldsLock(p)' => HoldsLock(p) /\ call'[p] = call[p]

LEMMA MildLock ==
    ASSUME TypeOK, LockInv, Mild
    PROVE  LockInv'
<1>1. ASSUME NEW p \in Calls, HoldsLock(p)'
      PROVE  /\ HoldsLock(p) /\ call'[p] = call[p] /\ call[p].u \in Users
             /\ status'[call[p].u] = status[call[p].u]
    <2>1. HoldsLock(p) /\ call'[p] = call[p]
        BY <1>1 DEF Mild
    <2>2. call[p].u \in Users
        BY <2>1, LockedState DEF HoldsLock
    <2>3. Locked(call[p].u)
        BY <2>1 DEF Locked, At, HoldsLock
    <2> QED
        BY <2>1, <2>2, <2>3 DEF Mild
<1>2. \A p \in Calls : Counted(p)' => HoldsLock(p)' /\ HoldsLock(p) /\ call'[p] = call[p]
    BY DEF Mild, HoldsLock, Counted
<1> QED
    BY <1>1, <1>2 DEF LockInv, Counted, HoldsLock

LEMMA MildAdmin ==
    ASSUME TypeOK, AdminInv, Mild
    PROVE  AdminInv'
<1>1. \A u \in Users : role[u] = "ADMIN" /\ status[u] \in {"ACTIVE", "DELETED"} =>
        role'[u] = "ADMIN" /\ status'[u] \in {"ACTIVE", "DELETED"}
    BY DEF Mild
<1>2. \A p \in Calls : Counted(p)' => Counted(p) /\ call'[p] = call[p]
    BY DEF Mild, HoldsLock, Counted
<1>3. LastAdminRemains'
    BY <1>1 DEF AdminInv, LastAdminRemains
<1>4. ASSUME NEW p \in Calls, Counted(p)'
      PROVE  Other(call[p].u)'
    <2>1. PICK v \in Users \ {call[p].u} :
            role[v] = "ADMIN" /\ status[v] \in {"ACTIVE", "DELETED"}
        BY <1>2, <1>4 DEF AdminInv, Other
    <2> QED
        BY <1>1, <1>2, <1>4, <2>1 DEF Other
<1> QED
    BY <1>3, <1>4 DEF AdminInv

\* A slot that moves on without a lock gives none to anyone.
LEMMA NoLockGained ==
    ASSUME TypeOK, NEW p \in Calls, NEW s, Go(p, s), s.step \notin {"locked", "counted"}
    PROVE  \A q \in Calls : HoldsLock(q)' => HoldsLock(q) /\ call'[q] = call[q]
BY DEF TypeOK, Go, HoldsLock

\* All steps are mild but those of administrators.
LEMMA UserMild ==
    ASSUME TypeOK, NEW p \in Calls, NEW u \in Users, UserStep(p, u)
    PROVE  Mild
<1>1. \A q \in Calls : HoldsLock(q)' => HoldsLock(q) /\ call'[q] = call[q]
    BY NoLockGained DEF UserStep, LiftWrite, RequestWrite, CancelWrite, JobAbort,
        JobCheck, JobErase, PayWrite, Done, Idle
<1>2. CASE LiftWrite(p, u)
    BY <1>1, <1>2 DEF LiftWrite, TypeOK, Mild
<1>3. CASE RequestWrite(p, u) \/ CancelWrite(p, u) \/ JobAbort(p, u) \/ JobCheck(p, u)
    BY <1>1, <1>3 DEF RequestWrite, CancelWrite, JobAbort, JobCheck, TypeOK, Mild, row
<1>4. CASE JobErase(p, u)
    BY <1>1, <1>4 DEF JobErase, TypeOK, Mild
<1>5. CASE PayWrite(p, u)
    BY <1>1, <1>5 DEF PayWrite, TypeOK, Mild
<1> QED
    BY <1>2, <1>3, <1>4, <1>5 DEF UserStep

LEMMA StartMild ==
    ASSUME TypeOK, NEW p \in Calls, NEW u \in Users,
           \/ LiftRead(p, u) \/ RequestRead(p, u) \/ CancelRead(p, u) \/ JobRead(p, u)
           \/ Invalidate(p, u) \/ InvalidateAgain(p, u) \/ InvalidateOnce(p, u)
           \/ PayRead(p, u) \/ Fail(p)
    PROVE  Mild
<1>1. CASE Invalidate(p, u)
    <2>1. [call[p] EXCEPT !.step = "timer"].step = "timer"
        BY <1>1, WaitingState DEF Invalidate, At
    <2>2. \A q \in Calls : HoldsLock(q)' => HoldsLock(q) /\ call'[q] = call[q]
        BY <1>1, <2>1, NoLockGained DEF Invalidate
    <2> QED
        BY <1>1, <2>2 DEF Invalidate, TypeOK, Mild, row
<1>2. CASE ~Invalidate(p, u)
    <2>1. \A q \in Calls : HoldsLock(q)' => HoldsLock(q) /\ call'[q] = call[q]
        BY <1>2, NoLockGained DEF LiftRead, RequestRead, CancelRead, JobRead,
            PayRead, InvalidateAgain, InvalidateOnce, Fail, Done, Idle
    <2> QED
        BY <1>2, <2>1 DEF LiftRead, RequestRead, CancelRead, JobRead,
            PayRead, InvalidateAgain, InvalidateOnce, Fail, TypeOK, Mild, row
<1> QED
    BY <1>1, <1>2

LEMMA OtherMild ==
    ASSUME TypeOK, OtherNext
    PROVE  Mild
<1>1. ASSUME NEW u \in Users,
             SuspensionPasses(u) \/ DeletionFallsDue(u) \/ PaymentEnds(u)
               \/ GateExpire(u)
      PROVE  Mild
    BY <1>1 DEF SuspensionPasses, DeletionFallsDue, PaymentEnds, GateExpire,
        Mild, HoldsLock, TypeOK, row
<1>2. ASSUME NEW f \in Fills, NEW u \in Users, GateRead(f, u)
      PROVE  Mild
    BY <1>2 DEF GateRead, Mild, HoldsLock, TypeOK, row
<1>3. ASSUME NEW f \in Fills, GateFill(f)
      PROVE  Mild
    <2>1. ASSUME NEW p \in Calls, HoldsLock(p)'
          PROVE  HoldsLock(p) /\ call'[p] = call[p]
        <3>1. CASE call[p].step \in {"committed", "timer"}
            <4>1. call[p] \in [step : {"committed", "timer"}, u : Users, wait : SUBSET Fills]
                BY <3>1, WaitingState
            <4>2. call'[p] = [call[p] EXCEPT !.wait = @ \ {f}]
                BY <1>3, <3>1 DEF GateFill, Ended
            <4>3. call'[p].step \in {"committed", "timer"}
                BY <4>1, <4>2
            <4> QED
                BY <2>1, <4>3 DEF HoldsLock
        <3>2. CASE call[p].step \notin {"committed", "timer"}
            <4>1. call'[p] = call[p]
                BY <1>3, <3>2 DEF GateFill, Ended
            <4> QED
                BY <2>1, <4>1 DEF HoldsLock
        <3> QED
            BY <3>1, <3>2
    <2> QED
        BY <1>3, <2>1 DEF GateFill, Mild, TypeOK, row
<1> QED
    BY <1>1, <1>2, <1>3 DEF OtherNext

LEMMA StutterMild ==
    ASSUME TypeOK, UNCHANGED vars
    PROVE  Mild
BY DEF vars, TypeOK, Mild, HoldsLock

-----------------------------------------------------------------------------
(***************************************************************************)
(* Steps of administrators.                                                *)
(***************************************************************************)
\* The write of a handler: its row changes as its operation says, and its locks
\* are gone.
Writes(p, u) == Suspend(p, u) \/ Unsuspend(p, u) \/ Ban(p, u) \/ Unban(p, u) \/ ChangeRole(p, u)

LEMMA WriteFacts ==
    ASSUME TypeOK, LockInv, NEW p \in Calls, NEW u \in Users, Writes(p, u)
    PROVE  /\ HoldsLock(p) /\ call[p].u = u /\ status[u] # "DELETED"
           /\ \A q \in Calls : HoldsLock(q)' => q # p /\ HoldsLock(q) /\ call'[q] = call[q]
           /\ \A v \in Users \ {u} : status'[v] = status[v] /\ role'[v] = role[v]
           /\ status'[u] # "DELETED"
           /\ Counted(p) \/ role[u] = "USER" \/ (role'[u] = "ADMIN" /\
                (status'[u] = status[u] \/ status'[u] = "ACTIVE"))
           /\ status[u] = "SUSPENDED" /\ status'[u] = "ACTIVE" => call[p].op = "unsuspend"
           /\ status[u] = "BANNED" /\ status'[u] = "ACTIVE" => call[p].op = "unban"
<1>1. HoldsLock(p) /\ call[p].u = u /\ Commit(p, u)
    BY DEF Writes, Suspend, Unsuspend, Ban, Unban, ChangeRole, Holds, HoldsLock
<1>2. status[u] # "DELETED"
    BY <1>1 DEF LockInv
<1>3. \A q \in Calls : HoldsLock(q)' => q # p /\ HoldsLock(q) /\ call'[q] = call[q]
    BY <1>1 DEF Commit, Go, HoldsLock, TypeOK
<1>4. role[u] \in {"USER", "ADMIN"}
    BY DEF TypeOK
<1>5. CASE Suspend(p, u)
    BY <1>1, <1>2, <1>3, <1>4, <1>5 DEF Suspend, Holds, Reduces, Counted, TypeOK
<1>6. CASE Unsuspend(p, u)
    BY <1>1, <1>2, <1>3, <1>4, <1>6 DEF Unsuspend, Holds, LockInv, TypeOK
<1>7. CASE Ban(p, u)
    BY <1>1, <1>2, <1>3, <1>4, <1>7 DEF Ban, Holds, Reduces, Counted, TypeOK
<1>8. CASE Unban(p, u)
    BY <1>1, <1>2, <1>3, <1>4, <1>8 DEF Unban, Holds, LockInv, TypeOK
<1>9. CASE ChangeRole(p, u)
    BY <1>1, <1>2, <1>3, <1>4, <1>9 DEF ChangeRole, Holds, Reduces, Counted, TypeOK
<1> QED
    BY <1>5, <1>6, <1>7, <1>8, <1>9 DEF Writes

LEMMA WriteKeeps ==
    ASSUME TypeOK, LockInv, AdminInv, NEW p \in Calls, NEW u \in Users, Writes(p, u)
    PROVE  LockInv' /\ AdminInv'
<1>1. ASSUME NEW q \in Calls, HoldsLock(q)'
      PROVE  /\ q # p /\ HoldsLock(q) /\ call'[q] = call[q] /\ call[q].u \in Users
             /\ call[q].u # u /\ status'[call[q].u] = status[call[q].u]
    <2>1. q # p /\ HoldsLock(q) /\ call'[q] = call[q]
        BY <1>1, WriteFacts
    <2>2. call[q].u \in Users
        BY <2>1, LockedState DEF HoldsLock
    <2>3. call[q].u # u
        BY <2>1, WriteFacts DEF LockInv
    <2> QED
        BY <2>1, <2>2, <2>3, WriteFacts
<1>2. LockInv'
    <2>1. \A q \in Calls : Counted(q)' => HoldsLock(q)' /\ Counted(q)
        BY <1>1 DEF HoldsLock, Counted
    <2> QED
        BY <1>1, <2>1 DEF LockInv, HoldsLock
<1>3. CASE Counted(p)
    <2>1. PICK v \in Users \ {u} : role[v] = "ADMIN" /\ status[v] \in {"ACTIVE", "DELETED"}
        BY <1>3, WriteFacts DEF AdminInv, Other
    <2>2. role'[v] = "ADMIN" /\ status'[v] \in {"ACTIVE", "DELETED"}
        BY <2>1, WriteFacts
    <2>3. \A q \in Calls : ~Counted(q)'
        BY <1>1, <1>3 DEF LockInv, HoldsLock, Counted
    <2> QED
        BY <1>2, <2>2, <2>3 DEF AdminInv, LastAdminRemains
<1>4. CASE ~Counted(p)
    <2>1. \A v \in Users : role[v] = "ADMIN" /\ status[v] \in {"ACTIVE", "DELETED"} =>
            role'[v] = "ADMIN" /\ status'[v] \in {"ACTIVE", "DELETED"}
        BY <1>4, WriteFacts
    <2>2. \A q \in Calls : Counted(q)' => Counted(q) /\ call'[q] = call[q]
        BY <1>1 DEF HoldsLock, Counted
    <2>3. LastAdminRemains'
        BY <2>1 DEF AdminInv, LastAdminRemains
    <2>4. ASSUME NEW q \in Calls, Counted(q)'
          PROVE  Other(call[q].u)'
        <3>1. PICK v \in Users \ {call[q].u} :
                role[v] = "ADMIN" /\ status[v] \in {"ACTIVE", "DELETED"}
            BY <2>2, <2>4 DEF AdminInv, Other
        <3> QED
            BY <2>1, <2>2, <2>4, <3>1 DEF Other
    <2> QED
        BY <1>2, <2>3, <2>4 DEF AdminInv
<1> QED
    BY <1>3, <1>4

LEMMA CountKeeps ==
    ASSUME TypeOK, LockInv, AdminInv, NEW p \in Calls, AdminCount(p)
    PROVE  LockInv' /\ AdminInv'
<1>1. UNCHANGED <<status, role>> /\ HoldsLock(p)
    BY DEF AdminCount, row, HoldsLock
<1>2. call[p] \in [step : {"locked", "counted"}, u : Users, op : Ops]
    BY <1>1, LockedState DEF HoldsLock
<1>3. \A q \in Calls : q # p => call'[q] = call[q]
    BY DEF AdminCount, Done, Go, TypeOK
<1>4. CASE \E v \in Users \ {call[p].u} : ActiveAdmin(v)
    <2>1. call'[p] = [call[p] EXCEPT !.step = "counted"]
        BY <1>4 DEF AdminCount, Go, TypeOK
    <2>2. call'[p].u = call[p].u /\ call'[p].op = call[p].op /\ HoldsLock(p)'
        BY <1>2, <2>1 DEF HoldsLock
    <2>3. \A q \in Calls : ~Counted(q)
        BY DEF AdminCount, Counted
    <2>4. call[p].op \in {"suspend", "ban", "demote"}
        BY DEF AdminCount, Reduces
    <2>5. LockInv'
        BY <1>1, <1>3, <2>2, <2>3, <2>4 DEF LockInv, HoldsLock, Counted
    <2>6. Other(call[p].u)'
        BY <1>1, <1>4, <2>2 DEF Other, ActiveAdmin
    <2> QED
        BY <1>1, <1>3, <2>3, <2>5, <2>6 DEF AdminInv, LastAdminRemains, Counted, Other
<1>5. CASE ~\E v \in Users \ {call[p].u} : ActiveAdmin(v)
    <2>1. \A q \in Calls : HoldsLock(q)' => HoldsLock(q) /\ call'[q] = call[q]
        BY <1>5, NoLockGained DEF AdminCount, Done, Idle
    <2>2. Mild
        BY <1>1, <2>1 DEF Mild, TypeOK
    <2> QED
        BY <2>2, MildLock, MildAdmin
<1> QED
    BY <1>4, <1>5

LEMMA LockKeeps ==
    ASSUME TypeOK, LockInv, AdminInv,
           NEW p \in Calls, NEW a \in Users, NEW u \in Users, NEW op \in Ops,
           AdminLock(p, a, u, op)
    PROVE  LockInv' /\ AdminInv'
<1>1. UNCHANGED <<status, role>>
    BY DEF AdminLock, row
<1>2. call'[p] = [step |-> "locked", u |-> u, op |-> op]
    BY DEF AdminLock, Go, TypeOK
<1>3. \A q \in Calls : q # p => call'[q] = call[q]
    BY DEF AdminLock, Go, TypeOK
<1>4. \A q \in Calls : HoldsLock(q) => call[q].u # u
    BY DEF AdminLock, Locked, At, HoldsLock
<1>5. /\ status[u] # "DELETED"
      /\ op = "unsuspend" => status[u] = "SUSPENDED"
      /\ op = "unban" => status[u] = "BANNED"
    BY DEF AdminLock, Allowed, MaySuspend, MayUnsuspend, MayBan, MayUnban,
        MayChangeRole, Ops
<1>6. LockInv'
    BY <1>1, <1>2, <1>3, <1>4, <1>5 DEF LockInv, HoldsLock, Counted
<1> QED
    BY <1>1, <1>2, <1>3, <1>6 DEF AdminInv, LastAdminRemains, Counted, Other

LEMMA LocksStep ==
    ASSUME TypeOK, LockInv, AdminInv, [Next]_vars
    PROVE  LockInv' /\ AdminInv'
<1>1. ASSUME NEW p \in Calls, NEW u \in Users, AdminStep(p, u)
      PROVE  LockInv' /\ AdminInv'
    BY <1>1, WriteKeeps, StartMild, MildLock, MildAdmin DEF AdminStep, Writes
<1>2. ASSUME NEW p \in Calls, NEW u \in Users, UserStep(p, u)
      PROVE  LockInv' /\ AdminInv'
    BY <1>2, UserMild, MildLock, MildAdmin
<1>3. ASSUME NEW p \in Calls, NEW u \in Users,
             \/ LiftRead(p, u) \/ RequestRead(p, u) \/ CancelRead(p, u) \/ JobRead(p, u)
             \/ PayRead(p, u)
      PROVE  LockInv' /\ AdminInv'
    BY <1>3, StartMild, MildLock, MildAdmin
<1>4. ASSUME NEW p \in Calls, Fail(p)
      PROVE  LockInv' /\ AdminInv'
    <2>1. PICK u \in Users : TRUE
        BY DEF AdminInv, LastAdminRemains
    <2> QED
        BY <1>4, <2>1, StartMild, MildLock, MildAdmin
<1>5. CASE CallNext
    BY <1>1, <1>2, <1>3, <1>4, <1>5, CountKeeps, LockKeeps DEF CallNext, Continue
<1>6. CASE OtherNext
    BY <1>6, OtherMild, MildLock, MildAdmin
<1>7. CASE UNCHANGED vars
    BY <1>7, StutterMild, MildLock, MildAdmin
<1> QED
    BY <1>5, <1>6, <1>7 DEF Next

LEMMA LocksInit ==
    ASSUME Init
    PROVE  LockInv /\ AdminInv
<1>1. {u \in Users : role[u] = "ADMIN"} # {}
    <2>1. Cardinality({}) = 0
        BY FS_EmptySet
    <2> QED
        BY <2>1 DEF Init
<1>2. \A p \in Calls : call[p].step = "idle"
    BY DEF Init, Idle
<1> QED
    BY <1>1, <1>2 DEF Init, LockInv, AdminInv, LastAdminRemains, HoldsLock, Counted

\* Row locks are exclusive, what was read under one still holds, and the
\* administrator who was counted is still there.
THEOREM LocksAreHeld == Spec => [](LockInv /\ AdminInv)
<1>1. Init => LockInv /\ AdminInv
    BY LocksInit
<1>2. TypeOK /\ LockInv /\ AdminInv /\ [Next]_vars => LockInv' /\ AdminInv'
    BY LocksStep
<1> QED
    BY <1>1, <1>2, TypeCorrect, PTL DEF Spec

\* Administrators who act on each other at once leave one of them.
THEOREM AdministratorRemains == Spec => []LastAdminRemains
<1>1. AdminInv => LastAdminRemains
    BY DEF AdminInv
<1> QED
    BY <1>1, LocksAreHeld, PTL

-----------------------------------------------------------------------------
(***************************************************************************)
(* What a step may do to the status of an account.                         *)
(***************************************************************************)
LEMMA StepShape ==
    ASSUME TypeOK, AdminInv, Next
    PROVE  \/ Mild
           \/ \E p \in Calls, u \in Users : Writes(p, u)
           \/ UNCHANGED <<status, role>>
<1>1. ASSUME NEW p \in Calls, NEW u \in Users, AdminStep(p, u)
      PROVE  Mild \/ Writes(p, u)
    BY <1>1, StartMild DEF AdminStep, Writes
<1>2. ASSUME NEW p \in Calls, NEW u \in Users, UserStep(p, u)
      PROVE  Mild
    BY <1>2, UserMild
<1>3. ASSUME NEW p \in Calls, NEW u \in Users,
             \/ LiftRead(p, u) \/ RequestRead(p, u) \/ CancelRead(p, u) \/ JobRead(p, u)
             \/ PayRead(p, u)
      PROVE  Mild
    BY <1>3, StartMild
<1>4. ASSUME NEW p \in Calls,
             \/ Fail(p) \/ AdminCount(p)
             \/ \E a, u \in Users, op \in Ops : AdminLock(p, a, u, op)
      PROVE  UNCHANGED <<status, role>>
    BY <1>4 DEF Fail, AdminCount, AdminLock, row
<1> QED
    BY <1>1, <1>2, <1>3, <1>4, OtherMild DEF Next, CallNext, Continue

Stays == \A u \in Users : status[u] = "DELETED" => status'[u] = "DELETED"
Held ==
    \A u \in Users :
        status[u] \in {"SUSPENDED", "BANNED"} /\ status'[u] = "ACTIVE" =>
            \/ until[u] = "past"
            \/ \E p \in Calls : At(p, "locked", u) /\ call[p].op = Unblocks(u)

LEMMA StepHolds ==
    ASSUME TypeOK, LockInv, AdminInv, Next
    PROVE  Stays /\ Held
<1>1. CASE Mild
    BY <1>1 DEF Mild, Stays, Held
<1>2. CASE UNCHANGED <<status, role>>
    BY <1>2 DEF Stays, Held
<1>3. ASSUME NEW p \in Calls, NEW u \in Users, Writes(p, u)
      PROVE  Stays /\ Held
    <2>1. Stays
        BY <1>3, WriteFacts DEF Stays
    <2>2. ASSUME NEW v \in Users, status[v] \in {"SUSPENDED", "BANNED"}, status'[v] = "ACTIVE"
          PROVE  At(p, "locked", v) /\ call[p].op = Unblocks(v)
        <3>1. v = u /\ HoldsLock(p) /\ call[p].u = u
            BY <1>3, <2>2, WriteFacts
        <3>2. call[p].op = Unblocks(v) /\ call[p].op \in {"unsuspend", "unban"}
            BY <1>3, <2>2, <3>1, WriteFacts DEF Unblocks
        <3>3. ~Counted(p)
            BY <3>2 DEF LockInv
        <3> QED
            BY <3>1, <3>2, <3>3 DEF At, HoldsLock, Counted
    <2> QED
        BY <2>1, <2>2 DEF Held
<1> QED
    BY <1>1, <1>2, <1>3, StepShape

\* An erased account stays erased.
THEOREM ErasedStays == Spec => ErasedForGood
<1>1. TypeOK /\ LockInv /\ AdminInv /\ [Next]_vars => [Stays]_vars
    BY StepHolds
<1> QED
    BY <1>1, TypeCorrect, LocksAreHeld, PTL DEF Spec, ErasedForGood, Stays

\* A block ends when its time is over, or by the operation that ends this kind
\* of block: whatever else is in flight.
THEOREM BlockStays == Spec => BlockHolds
<1>1. TypeOK /\ LockInv /\ AdminInv /\ [Next]_vars => [Held]_vars
    BY StepHolds
<1> QED
    BY <1>1, TypeCorrect, LocksAreHeld, PTL DEF Spec, BlockHolds, Held

-----------------------------------------------------------------------------
(***************************************************************************)
(* Erasure and payments.                                                   *)
(***************************************************************************)
\* Between the check of payments and the erasure a payment can only be opened
\* when the deletion is no longer due, and it takes days to be due again: longer
\* than a payment takes that was begun when no deletion was scheduled.
OwesInv ==
    \A p \in Calls, u \in Users :
        /\ At(p, "jobChecked", u) => ~paying[u] \/ deletion[u] # "past"
        /\ At(p, "payRead", u) => deletion[u] # "past"

\* The due deletions, and the payments of accounts in a checked erasure, are no
\* more than before; no further erasure is checked, and no payment begun.
OwesQuiet ==
    \A p \in Calls, u \in Users :
        /\ At(p, "jobChecked", u)' =>
            /\ At(p, "jobChecked", u)
            /\ deletion'[u] = "past" => deletion[u] = "past"
            /\ paying'[u] => paying[u] \/ deletion'[u] # "past"
        /\ At(p, "payRead", u)' =>
            /\ At(p, "payRead", u)
            /\ deletion'[u] = "past" => deletion[u] = "past"

LEMMA QuietOwes ==
    ASSUME OwesInv, OwesQuiet
    PROVE  OwesInv'
BY DEF OwesInv, OwesQuiet

\* Who stands at a check of payments, or begins a payment, stood there before.
NoneBegun ==
    \A q \in Calls, u \in Users, step \in {"jobChecked", "payRead"} :
        At(q, step, u)' => At(q, step, u)

\* A slot that moves on otherwise checks no erasure and begins no payment.
LEMMA NoCheckGained ==
    ASSUME TypeOK, NEW p \in Calls, NEW s, Go(p, s),
           s.step \notin {"jobChecked", "payRead"}
    PROVE  NoneBegun
BY DEF TypeOK, Go, At, NoneBegun

LEMMA CallOwes ==
    ASSUME TypeOK, OwesInv, CallNext
    PROVE  OwesInv'
<1>1. ASSUME NEW p \in Calls, NEW u \in Users, Writes(p, u)
      PROVE  OwesInv'
    <2>1. NoneBegun
        BY <1>1, NoCheckGained DEF Writes, Suspend, Unsuspend, Ban, Unban, ChangeRole, Commit
    <2> QED
        BY <1>1, <2>1, QuietOwes DEF NoneBegun, OwesQuiet, Writes, Suspend, Unsuspend, Ban,
            Unban, ChangeRole, Commit
<1>2. ASSUME NEW p \in Calls, NEW u \in Users,
             \/ Invalidate(p, u) \/ InvalidateAgain(p, u) \/ InvalidateOnce(p, u)
             \/ LiftRead(p, u) \/ RequestRead(p, u) \/ CancelRead(p, u) \/ JobRead(p, u)
             \/ Fail(p) \/ AdminCount(p)
             \/ \E a \in Users, op \in Ops : AdminLock(p, a, u, op)
      PROVE  OwesInv'
    <2>1. UNCHANGED <<deletion, paying>>
        BY <1>2 DEF Invalidate, InvalidateAgain, InvalidateOnce, LiftRead, RequestRead,
            CancelRead, JobRead, Fail, AdminCount, AdminLock, row
    <2>2. NoneBegun
        <3>1. CASE Invalidate(p, u)
            <4>1. [call[p] EXCEPT !.step = "timer"].step = "timer"
                BY <3>1, WaitingState DEF Invalidate, At
            <4> QED
                BY <3>1, <4>1, NoCheckGained DEF Invalidate
        <3>2. CASE AdminCount(p)
            <4>1. [call[p] EXCEPT !.step = "counted"].step = "counted"
                BY <3>2, LockedState DEF AdminCount
            <4> QED
                BY <3>2, <4>1, NoCheckGained DEF AdminCount, Done, Idle
        <3>3. CASE \E a \in Users, op \in Ops : AdminLock(p, a, u, op)
            BY <3>3, NoCheckGained DEF AdminLock
        <3> QED
            BY <1>2, <3>1, <3>2, <3>3, NoCheckGained DEF InvalidateAgain, InvalidateOnce,
                LiftRead, RequestRead, CancelRead, JobRead, Fail, Done, Idle
    <2> QED
        BY <2>1, <2>2, QuietOwes DEF NoneBegun, OwesQuiet
<1>3. ASSUME NEW p \in Calls, NEW u \in Users, UserStep(p, u), ~JobCheck(p, u), ~PayWrite(p, u)
      PROVE  OwesInv'
    <2>1. NoneBegun
        BY <1>3, NoCheckGained DEF UserStep, LiftWrite, RequestWrite, CancelWrite,
            JobAbort, JobErase, Done, Idle
    <2>2. \A v \in Users : paying'[v] = paying[v]
                           /\ (deletion'[v] = "past" => deletion[v] = "past")
        BY <1>3 DEF UserStep, LiftWrite, RequestWrite, CancelWrite, JobAbort, JobErase, TypeOK
    <2> QED
        BY <2>1, <2>2, QuietOwes DEF NoneBegun, OwesQuiet
<1>4. ASSUME NEW p \in Calls, NEW u \in Users, JobCheck(p, u)
      PROVE  OwesInv'
    <2>1. UNCHANGED <<deletion, paying>> /\ \A q \in Calls : q # p => call'[q] = call[q]
        BY <1>4 DEF JobCheck, row, Done, Go, TypeOK
    <2>2. paying[u] => call'[p].step = "idle"
        BY <1>4 DEF JobCheck, Done, Go, Idle, TypeOK
    <2>3. ~paying[u] => call'[p].step = "jobChecked" /\ call'[p].u = u
        BY <1>4 DEF JobCheck, Go, TypeOK
    <2> QED
        BY <2>1, <2>2, <2>3 DEF OwesInv, At
<1>5. ASSUME NEW p \in Calls, NEW u \in Users, PayRead(p, u)
      PROVE  OwesInv'
    <2>1. UNCHANGED <<deletion, paying>> /\ \A q \in Calls : q # p => call'[q] = call[q]
        BY <1>5 DEF PayRead, row, Go, TypeOK
    <2>2. call'[p] = [step |-> "payRead", u |-> u] /\ deletion[u] = "none"
        BY <1>5 DEF PayRead, Go, TypeOK
    <2> QED
        BY <2>1, <2>2 DEF OwesInv, At
<1>6. ASSUME NEW p \in Calls, NEW u \in Users, PayWrite(p, u)
      PROVE  OwesInv'
    <2>1. NoneBegun
        BY <1>6, NoCheckGained DEF PayWrite, Done, Idle
    <2>2. /\ UNCHANGED deletion /\ deletion[u] # "past"
          /\ \A v \in Users : v # u => paying'[v] = paying[v]
        BY <1>6 DEF PayWrite, OwesInv, TypeOK
    <2> QED
        BY <2>1, <2>2, QuietOwes DEF NoneBegun, OwesQuiet
<1>7. ASSUME NEW p \in Calls, Fail(p) \/ AdminCount(p)
      PROVE  OwesInv'
    <2>1. CASE Users = {}
        BY <2>1 DEF OwesInv
    <2> QED
        BY <1>2, <1>7, <2>1
<1> QED
    BY <1>1, <1>2, <1>3, <1>4, <1>5, <1>6, <1>7 DEF CallNext, Continue, AdminStep, Writes

LEMMA OtherOwes ==
    ASSUME TypeOK, OwesInv, OtherNext
    PROVE  OwesInv'
<1>1. ASSUME NEW u \in Users, SuspensionPasses(u) \/ GateExpire(u)
      PROVE  OwesInv'
    BY <1>1 DEF SuspensionPasses, GateExpire, row, OwesInv, At
<1>2. ASSUME NEW u \in Users, DeletionFallsDue(u)
      PROVE  OwesInv'
    <2>1. \A p \in Calls : ~At(p, "jobChecked", u) /\ ~At(p, "payRead", u)
        BY <1>2 DEF DeletionFallsDue, Free, At, Idle
    <2> QED
        BY <1>2, <2>1 DEF DeletionFallsDue, OwesInv, At, TypeOK
<1>3. ASSUME NEW u \in Users, PaymentEnds(u)
      PROVE  OwesInv'
    BY <1>3 DEF PaymentEnds, OwesInv, At, TypeOK
<1>4. ASSUME NEW f \in Fills, NEW u \in Users, GateRead(f, u)
      PROVE  OwesInv'
    BY <1>4 DEF GateRead, row, OwesInv, At
<1>5. ASSUME NEW f \in Fills, GateFill(f)
      PROVE  OwesInv'
    <2>1. NoneBegun
        BY <1>5, WaitingState DEF GateFill, Ended, At, NoneBegun
    <2> QED
        BY <1>5, <2>1, QuietOwes DEF GateFill, row, NoneBegun, OwesQuiet
<1> QED
    BY <1>1, <1>2, <1>3, <1>4, <1>5 DEF OtherNext

Settled == \A u \in Users : status[u] # "DELETED" /\ status'[u] = "DELETED" => ~paying[u]

LEMMA StepSettled ==
    ASSUME TypeOK, LockInv, AdminInv, OwesInv, Next
    PROVE  Settled
<1>1. ASSUME NEW p \in Calls, NEW u \in Users, Writes(p, u)
      PROVE  Settled
    BY <1>1, WriteFacts DEF Settled
<1>2. ASSUME NEW p \in Calls, NEW u \in Users, UserStep(p, u)
      PROVE  Settled
    <2>1. CASE JobErase(p, u)
        BY <2>1 DEF JobErase, OwesInv, Settled, TypeOK
    <2>2. CASE ~JobErase(p, u)
        BY <1>2, <2>2 DEF UserStep, LiftWrite, RequestWrite, CancelWrite, JobAbort,
            JobCheck, PayWrite, Settled, TypeOK, row
    <2> QED
        BY <2>1, <2>2
<1>3. ASSUME UNCHANGED status
      PROVE  Settled
    BY <1>3 DEF Settled
<1>4. CASE OtherNext
    BY <1>3, <1>4 DEF OtherNext, SuspensionPasses, DeletionFallsDue, PaymentEnds,
        GateExpire, GateRead, GateFill, row
<1>5. CASE CallNext
    <2>1. ASSUME NEW p \in Calls, NEW u \in Users,
             \/ Invalidate(p, u) \/ InvalidateAgain(p, u) \/ InvalidateOnce(p, u)
             \/ LiftRead(p, u) \/ RequestRead(p, u) \/ CancelRead(p, u) \/ JobRead(p, u)
             \/ PayRead(p, u) \/ \E a \in Users, op \in Ops : AdminLock(p, a, u, op)
          PROVE  UNCHANGED status
        BY <2>1 DEF Invalidate, InvalidateAgain, InvalidateOnce, LiftRead, RequestRead,
            CancelRead, JobRead, PayRead, AdminLock, row
    <2>2. ASSUME NEW p \in Calls, Fail(p) \/ AdminCount(p)
          PROVE  UNCHANGED status
        BY <2>2 DEF Fail, AdminCount, row
    <2> QED
        BY <1>1, <1>2, <1>3, <1>5, <2>1, <2>2 DEF CallNext, Continue, AdminStep, Writes
<1> QED
    BY <1>4, <1>5 DEF Next

THEOREM ChecksHold == Spec => []OwesInv
<1>1. Init => OwesInv
    BY DEF Init, OwesInv, At, Idle
<1>2. TypeOK /\ OwesInv /\ [Next]_vars => OwesInv'
    <2>1. ASSUME OwesInv, UNCHANGED vars
          PROVE  OwesInv'
        BY <2>1 DEF OwesInv, At, vars
    <2> QED
        BY <2>1, CallOwes, OtherOwes DEF Next
<1> QED
    BY <1>1, <1>2, TypeCorrect, PTL DEF Spec

\* Nobody is erased with a payment open.
THEOREM ErasureIsSettled == Spec => ErasedOwesNothing
<1>1. TypeOK /\ LockInv /\ AdminInv /\ OwesInv /\ [Next]_vars => [Settled]_vars
    BY StepSettled
<1> QED
    BY <1>1, TypeCorrect, LocksAreHeld, ChecksHold, PTL DEF Spec, ErasedOwesNothing, Settled

-----------------------------------------------------------------------------
(***************************************************************************)
(* The gate.                                                               *)
(***************************************************************************)
Blocked(u)     == status[u] \in {"SUSPENDED", "BANNED"}
Removing(p, u) == At(p, "committed", u) \/ At(p, "timer", u)
Admits(f, u)   == fill[f] # None /\ fill[f].u = u /\ fill[f].copy \in {"USER", "ADMIN"}

\* While a copy from before a block is in the cache a removal is to come, and
\* one that waits for each validation that may still put such a copy there.
Reached(u) ==
    Blocked(u) /\ u \notin lost =>
        /\ gate[u] \in {"USER", "ADMIN"} => \E p \in Calls : Removing(p, u)
        /\ \A f \in Fills : Admits(f, u) =>
            \E p \in Calls : Removing(p, u) /\ f \in call[p].wait

GateInv == \A u \in Users : Reached(u)

\* A step that blocks nobody, brings no copy that admits, and removes nothing.
Quiet(u) ==
    /\ Blocked(u)' /\ u \notin lost' => Blocked(u) /\ u \notin lost
    /\ gate'[u] \in {"USER", "ADMIN"} => gate'[u] = gate[u]
    /\ \A f \in Fills : Admits(f, u)' => Admits(f, u)
    /\ \A p \in Calls : Removing(p, u) => call'[p] = call[p]

LEMMA QuietReached ==
    ASSUME NEW u \in Users, Reached(u), Quiet(u)
    PROVE  Reached(u)'
<1> SUFFICES ASSUME Blocked(u)', u \notin lost'
             PROVE  (/\ gate[u] \in {"USER", "ADMIN"} => \E p \in Calls : Removing(p, u)
                     /\ \A f \in Fills : Admits(f, u) =>
                          \E p \in Calls : Removing(p, u) /\ f \in call[p].wait)'
    BY DEF Reached
<1>1. \A p \in Calls : Removing(p, u) => Removing(p, u)' /\ call'[p].wait = call[p].wait
    BY DEF Quiet, Removing, At
<1> QED
    BY <1>1 DEF Quiet, Reached

\* A slot that moves on disturbs no removal but its own.
LEMMA OthersRemove ==
    ASSUME TypeOK, NEW p \in Calls, NEW s, Go(p, s), NEW v \in Users, ~Removing(p, v)
    PROVE  \A q \in Calls : Removing(q, v) => call'[q] = call[q]
BY DEF TypeOK, Go

LEMMA WriteReached ==
    ASSUME TypeOK, GateInv, NEW p \in Calls, NEW u \in Users, Writes(p, u)
    PROVE  GateInv'
<1>1. /\ call[p].step \in {"locked", "counted"} /\ Commit(p, u)
      /\ \A v \in Users : v # u => status'[v] = status[v]
    BY DEF Writes, Suspend, Unsuspend, Ban, Unban, ChangeRole, Holds, TypeOK
<1>2. ASSUME NEW v \in Users, v # u
      PROVE  Quiet(v)
    <2>1. ~Removing(p, v)
        BY <1>1 DEF Removing, At
    <2> QED
        BY <1>1, <1>2, <2>1, OthersRemove DEF Commit, Quiet, Blocked, Admits
<1>3. Reached(u)'
    <2>1. call'[p] = [step |-> "committed", u |-> u, wait |-> Validating(u)]
        BY <1>1 DEF Commit, Go, TypeOK
    <2>2. Removing(p, u)' /\ call'[p].wait = Validating(u)
        BY <2>1 DEF Removing, At
    <2>3. \A f \in Fills : Admits(f, u)' => f \in Validating(u)
        BY <1>1 DEF Commit, Admits, Validating
    <2> QED
        BY <2>2, <2>3 DEF Reached
<1> QED
    BY <1>2, <1>3, QuietReached DEF GateInv

LEMMA RemovalReached ==
    ASSUME TypeOK, GateInv, NEW p \in Calls, NEW u \in Users,
           Invalidate(p, u) \/ InvalidateAgain(p, u) \/ InvalidateOnce(p, u)
    PROVE  GateInv'
<1>1. /\ gate'[u] = None /\ \A v \in Users : v # u => gate'[v] = gate[v]
      /\ UNCHANGED <<status, lost, fill>> /\ call[p].u = u
      /\ \A q \in Calls : q # p => call'[q] = call[q]
    BY DEF Invalidate, InvalidateAgain, InvalidateOnce, row, At, Go, Done, TypeOK
<1>2. ASSUME NEW v \in Users, v # u
      PROVE  Quiet(v)
    <2>1. ~Removing(p, v)
        BY <1>1, <1>2 DEF Removing, At
    <2> QED
        BY <1>1, <1>2, <2>1 DEF Quiet, Blocked, Admits
<1>3. Reached(u)'
    <2> SUFFICES ASSUME Blocked(u), u \notin lost, NEW f \in Fills, Admits(f, u)
                 PROVE  \E q \in Calls : Removing(q, u)' /\ f \in call'[q].wait
        BY <1>1, NoneAssumption DEF Reached, Blocked, Admits
    <2>1. PICK q \in Calls : Removing(q, u) /\ f \in call[q].wait
        BY DEF GateInv, Reached
    <2>2. CASE q # p
        BY <1>1, <2>1, <2>2 DEF Removing, At
    <2>3. CASE q = p
        <3>1. Invalidate(p, u)
            BY <2>1, <2>3 DEF InvalidateAgain, InvalidateOnce, Removing, At
        <3>2. call'[p] = [call[p] EXCEPT !.step = "timer"]
            BY <3>1 DEF Invalidate, Go, TypeOK
        <3>3. Removing(p, u)' /\ call'[p].wait = call[p].wait
            BY <1>1, <3>1, <3>2, WaitingState DEF Invalidate, Removing, At
        <3> QED
            BY <2>1, <2>3, <3>3
    <2> QED
        BY <2>2, <2>3
<1> QED
    BY <1>2, <1>3, QuietReached DEF GateInv

LEMMA UserReached ==
    ASSUME TypeOK, GateInv, NEW p \in Calls, NEW u \in Users,
           \/ UserStep(p, u) \/ AdminCount(p)
           \/ LiftRead(p, u) \/ RequestRead(p, u) \/ CancelRead(p, u) \/ JobRead(p, u)
           \/ PayRead(p, u)
           \/ \E a \in Users, op \in Ops : AdminLock(p, a, u, op)
    PROVE  GateInv'
<1>1. call[p].step \notin {"committed", "timer"}
    <2>1. CASE UserStep(p, u) \/ AdminCount(p)
        BY <2>1 DEF UserStep, LiftWrite, RequestWrite, CancelWrite, JobAbort, JobCheck,
            JobErase, PayWrite, AdminCount, At
    <2>2. CASE Free(p)
        BY <2>2 DEF Free, Idle
    <2> QED
        BY <2>1, <2>2 DEF AdminLock, LiftRead, RequestRead, CancelRead, JobRead, PayRead
<1>2. UNCHANGED <<gate, fill, lost>>
    BY DEF UserStep, LiftWrite, RequestWrite, CancelWrite, JobAbort, JobCheck, JobErase, PayWrite,
        AdminCount, AdminLock, LiftRead, RequestRead, CancelRead, JobRead, PayRead
<1>3. \A v \in Users : Blocked(v)' => Blocked(v)
    BY DEF UserStep, LiftWrite, RequestWrite, CancelWrite, JobAbort, JobCheck, JobErase, PayWrite,
        AdminCount, AdminLock, LiftRead, RequestRead, CancelRead, JobRead, PayRead, row, Blocked, TypeOK
<1>4. \A q \in Calls : q # p => call'[q] = call[q]
    BY DEF UserStep, LiftWrite, RequestWrite, CancelWrite, JobAbort, JobCheck, JobErase, PayWrite,
        AdminCount, AdminLock, LiftRead, RequestRead, CancelRead, JobRead, PayRead, Done, Go, TypeOK
<1>5. \A v \in Users : Quiet(v)
    BY <1>1, <1>2, <1>3, <1>4 DEF Quiet, Admits, Removing, At
<1> QED
    BY <1>5, QuietReached DEF GateInv

LEMMA FailReached ==
    ASSUME TypeOK, GateInv, NEW p \in Calls, Fail(p)
    PROVE  GateInv'
<1>1. UNCHANGED <<status, gate, fill>> /\ lost \subseteq lost'
      /\ \A q \in Calls : q # p => call'[q] = call[q]
    BY DEF Fail, row, Done, Go, TypeOK
<1>2. ASSUME NEW v \in Users, Removing(p, v)
      PROVE  Reached(v)'
    <2>1. v \in lost'
        BY <1>2 DEF Fail, Removing, At
    <2> QED
        BY <2>1 DEF Reached
<1>3. ASSUME NEW v \in Users, ~Removing(p, v)
      PROVE  Reached(v)'
    <2>1. Quiet(v)
        BY <1>1, <1>3 DEF Quiet, Blocked, Admits
    <2> QED
        BY <2>1, QuietReached DEF GateInv
<1> QED
    BY <1>2, <1>3 DEF GateInv

LEMMA FillReached ==
    ASSUME TypeOK, GateInv, NEW f \in Fills, GateFill(f)
    PROVE  GateInv'
<1> DEFINE w == fill[f].u
<1>1. /\ UNCHANGED <<status, lost>>
      /\ fill'[f] = None /\ \A g \in Fills : g # f => fill'[g] = fill[g]
      /\ \A v \in Users : gate'[v] = gate[v] \/ (v = w /\ gate'[v] = fill[f].copy)
    BY DEF GateFill, row, TypeOK
<1>2. ASSUME NEW p \in Calls, NEW v \in Users, Removing(p, v)
      PROVE  Removing(p, v)' /\ call'[p].wait = call[p].wait \ {f}
    <2>1. call[p].step \in {"committed", "timer"}
        BY <1>2 DEF Removing, At
    <2>2. call'[p] = [call[p] EXCEPT !.wait = @ \ {f}]
        BY <2>1 DEF GateFill, Ended
    <2> QED
        BY <1>2, <2>1, <2>2, WaitingState DEF Removing, At
<1>3. ASSUME NEW v \in Users, Blocked(v), v \notin lost
      PROVE  /\ gate'[v] \in {"USER", "ADMIN"} => \E p \in Calls : Removing(p, v)'
             /\ \A g \in Fills : Admits(g, v)' =>
                    \E p \in Calls : Removing(p, v)' /\ g \in call'[p].wait
    <2>1. gate'[v] \in {"USER", "ADMIN"} => \E p \in Calls : Removing(p, v)
        <3>1. CASE gate'[v] = gate[v]
            BY <1>3, <3>1 DEF GateInv, Reached
        <3>2. CASE v = w /\ gate'[v] = fill[f].copy
            <4>1. gate'[v] \in {"USER", "ADMIN"} => Admits(f, v)
                BY <3>2 DEF Admits, GateFill
            <4> QED
                BY <1>3, <4>1 DEF GateInv, Reached
        <3> QED
            BY <1>1, <3>1, <3>2
    <2>2. ASSUME NEW g \in Fills, Admits(g, v)'
          PROVE  \E p \in Calls : Removing(p, v)' /\ g \in call'[p].wait
        <3>1. g # f /\ Admits(g, v)
            BY <1>1, <2>2 DEF Admits
        <3>2. PICK p \in Calls : Removing(p, v) /\ g \in call[p].wait
            BY <1>3, <3>1 DEF GateInv, Reached
        <3> QED
            BY <1>2, <3>1, <3>2
    <2> QED
        BY <1>2, <2>1, <2>2
<1> QED
    BY <1>1, <1>3 DEF GateInv, Reached, Blocked

LEMMA OtherReached ==
    ASSUME TypeOK, GateInv, OtherNext
    PROVE  GateInv'
<1>1. ASSUME NEW u \in Users,
             \/ SuspensionPasses(u) \/ DeletionFallsDue(u) \/ PaymentEnds(u)
             \/ GateExpire(u)
      PROVE  GateInv'
    <2>1. \A v \in Users : Quiet(v)
        BY <1>1, NoneAssumption DEF SuspensionPasses, DeletionFallsDue, PaymentEnds,
            GateExpire, row, Quiet, Blocked, Admits, TypeOK
    <2> QED
        BY <2>1, QuietReached DEF GateInv
<1>2. ASSUME NEW f \in Fills, NEW u \in Users, GateRead(f, u)
      PROVE  GateInv'
    <2>1. UNCHANGED <<status, gate, lost, call>>
        BY <1>2 DEF GateRead, row
    <2>2. fill'[f] = [u |-> u, copy |-> Copy(u)] /\ \A g \in Fills : g # f => fill'[g] = fill[g]
        BY <1>2 DEF GateRead, TypeOK
    <2>3. Blocked(u) => Copy(u) = "OUT"
        BY DEF Blocked, Copy
    <2>4. ASSUME NEW v \in Users, Blocked(v)
          PROVE  Quiet(v)
        <3>1. \A g \in Fills : Admits(g, v)' => Admits(g, v)
            BY <2>2, <2>3, <2>4 DEF Admits
        <3> QED
            BY <2>1, <3>1 DEF Quiet, Blocked
    <2>5. ASSUME NEW v \in Users, ~Blocked(v)
          PROVE  Reached(v)'
        BY <2>1, <2>5 DEF Reached, Blocked
    <2> QED
        BY <2>4, <2>5, QuietReached DEF GateInv
<1> QED
    BY <1>1, <1>2, FillReached DEF OtherNext

THEOREM RemovalsAreComing == Spec => []GateInv
<1>1. Init => GateInv
    BY DEF Init, GateInv, Reached, Blocked
<1>2. TypeOK /\ AdminInv /\ GateInv /\ [Next]_vars => GateInv'
    <2> SUFFICES ASSUME TypeOK, AdminInv, GateInv, [Next]_vars
                 PROVE  GateInv'
        OBVIOUS
    <2>1. PICK someone \in Users : TRUE
        BY DEF AdminInv, LastAdminRemains
    <2>2. CASE CallNext
        BY <2>1, <2>2, WriteReached, RemovalReached, UserReached, FailReached
            DEF CallNext, Continue, AdminStep, Writes
    <2>3. CASE UNCHANGED vars
        BY <2>3 DEF vars, GateInv, Reached, Blocked, Admits, Removing, At
    <2> QED
        BY <2>2, <2>3, OtherReached DEF Next
<1> QED
    BY <1>1, <1>2, TypeCorrect, LocksAreHeld, PTL DEF Spec

\* When the timers of administrators have fired the gate does not let in anyone
\* who is suspended or banned, unless a removal was lost.
THEOREM BlockIsFelt == Spec => []BlockReachesGate
<1>1. GateInv => BlockReachesGate
    BY DEF GateInv, Reached, Blocked, Removing, BlockReachesGate
<1> QED
    BY <1>1, RemovalsAreComing, PTL
=============================================================================
